---------------------------- MODULE Spec2Model ----------------------------
(***************************************************************************)
(* Risk-bounded decision and ledger engine: the portfolio ledger           *)
(* (agents/portfolio_agent.py), the risk manager                           *)
(* (analysis/risk_manager.py), position sizing                             *)
(* (analysis/position_sizing.py) and the action plan                       *)
(* (agents/action_plan_agent.py).                                          *)
(*                                                                         *)
(* Money, prices and share counts are Python floats in the source.  They   *)
(* are modelled as exact rationals [n |-> numerator, d |-> denominator],   *)
(* kept in lowest terms with d > 0, so equalities here are the source's    *)
(* equalities up to binary floating-point rounding.  Timestamps            *)
(* (updated_at, timestamp, created_at) are not modelled: a transaction's   *)
(* position in the txns sequence is its AUTOINCREMENT id.                  *)
(***************************************************************************)
EXTENDS Integers, Sequences, FiniteSets, TLC

VARIABLES
    cash,       \* portfolio.cash_balance of the committed row id = 1
    holdings,   \* committed holdings table: symbol -> row, or NoRow
    txns,       \* committed transactions table, in id order
    conn,       \* the sqlite connection of the record_transaction call in flight
    snapshots,  \* committed daily_snapshots table: a set of rows
    today,      \* date.today(), as a day number
    market,     \* what _get_current_price returns now: symbol -> quote
    plan,       \* the action plan returned by the last generate_action_plan
    journal,    \* committed trade_journal table, in id order
    call,       \* the last call of a reporting operation and what it returned
    cycles      \* the decision cycles: how far each is, and what it has read

vars ==
    <<cash, holdings, txns, conn, snapshots, today, market, plan, journal, call,
      cycles>>
ledgerVars == <<cash, holdings, txns>>

-----------------------------------------------------------------------------
(* Exact rational arithmetic standing for the source's float arithmetic.   *)

Abs(i) == IF i < 0 THEN -i ELSE i

RECURSIVE GCD(_, _)
GCD(a, b) == IF b = 0 THEN a ELSE GCD(b, a % b)

Norm(n, d) ==
    LET s == IF d < 0 THEN -1 ELSE 1
        g == GCD(Abs(n), Abs(d))
    IN  [n |-> (s * n) \div g, d |-> (s * d) \div g]

R(i) == [n |-> i, d |-> 1]
Frac(a, b) == Norm(a, b)
Zero == R(0)

\* Sums and comparisons go over the least common denominator, which keeps the
\* intermediate products small.
RAdd(x, y) ==
    LET g == GCD(x.d, y.d)
    IN  Norm(x.n * (y.d \div g) + y.n * (x.d \div g), (x.d \div g) * y.d)
RNeg(x) == [n |-> -x.n, d |-> x.d]
RSub(x, y) == RAdd(x, RNeg(y))
RMul(x, y) == Norm(x.n * y.n, x.d * y.d)
RDiv(x, y) == Norm(x.n * y.d, x.d * y.n)
RLt(x, y) ==
    LET g == GCD(x.d, y.d)
    IN  x.n * (y.d \div g) < y.n * (x.d \div g)
RLe(x, y) ==
    LET g == GCD(x.d, y.d)
    IN  x.n * (y.d \div g) <= y.n * (x.d \div g)
RGt(x, y) == RLt(y, x)
RGe(x, y) == RLe(y, x)
RMax(x, y) == IF RLt(x, y) THEN y ELSE x
RMin(x, y) == IF RLt(y, x) THEN y ELSE x
RFloor(x) == x.n \div x.d

Pow10(k) == IF k = 2 THEN 100 ELSE IF k = 4 THEN 10000 ELSE 1

\* Python round(x, k): to k decimals, ties to the even neighbour.
Round(x, k) ==
    LET s == RMul(x, R(Pow10(k)))
        f == RFloor(s)
        r == RSub(s, R(f))
        up == \/ RGt(r, Frac(1, 2))
              \/ (r = Frac(1, 2) /\ f % 2 = 1)
    IN  Frac(IF up THEN f + 1 ELSE f, Pow10(k))

-----------------------------------------------------------------------------
(* The ledger store: agents/portfolio_agent.py.                            *)

\* The symbols the ledger is asked to hold: the two of the watchlist and one
\* outside it.
Symbols == {"PTT", "AOT", "KBANK"}
Actions == {"BUY", "SELL"}
NoRow == [absent |-> TRUE]

\* portfolio_agent.py:44-45, the row init_db inserts on first use.
InitialCash == 100000

\* Bound on the number of record_transaction calls of one behaviour.
MaxTxns == 2

\* Arguments record_transaction is called with.
Amounts == {30000, 60000}
Prices == {0, 10, 20}
Requests ==
    [symbol : Symbols, action : Actions,
     amount : {R(a) : a \in Amounts}, price : {R(p) : p \in Prices}]

Ledger == [cash |-> cash, holdings |-> holdings, txns |-> txns]

\* shares = amount_thb / price if price > 0 else 0
SharesOf(req) ==
    IF RGt(req.price, Zero) THEN RDiv(req.amount, req.price) ELSE Zero

\* UPDATE portfolio SET cash_balance = cash_balance -/+ ?
UpdateCash(L, req) ==
    IF req.action = "BUY"
    THEN [L EXCEPT !.cash = RSub(L.cash, req.amount)]
    ELSE IF req.action = "SELL"
    THEN [L EXCEPT !.cash = RAdd(L.cash, req.amount)]
    ELSE L

\* Mutant of NewAvgCost: the plain mean of the old cost and the new price.
NewAvgCostUnweighted(old, req, new_shares) ==
    RDiv(RAdd(old.avg_cost, req.price), R(2))

\* new_avg_cost of line 129.
NewAvgCost(old, req, new_shares) ==
    IF RGt(new_shares, Zero)
    THEN RDiv(RAdd(RMul(old.shares, old.avg_cost), req.amount), new_shares)
    ELSE Zero

\* Mutant of UpsertHolding: a first BUY inserts the row with the column
\* default avg_cost = 0 instead of the price.
UpsertHoldingDefaultCost(L, req) ==
    LET existing == L.holdings[req.symbol]
        shares == SharesOf(req)
    IN  IF req.action = "BUY"
        THEN IF existing # NoRow
             THEN LET new_shares == RAdd(existing.shares, shares)
                  IN  [L EXCEPT !.holdings[req.symbol] =
                          [shares |-> new_shares,
                           avg_cost |-> NewAvgCost(existing, req, new_shares)]]
             ELSE [L EXCEPT !.holdings[req.symbol] =
                      [shares |-> shares, avg_cost |-> Zero]]
        ELSE IF req.action = "SELL" /\ existing # NoRow
        THEN [L EXCEPT !.holdings[req.symbol].shares =
                 RSub(existing.shares, shares)]
        ELSE L

\* BUY: the holding upsert (lines 121-138); SELL: UPDATE holdings SET
\* shares = shares - ? (lines 145-149), which touches no row when the symbol
\* has none.
UpsertHolding(L, req) ==
    LET existing == L.holdings[req.symbol]
        shares == SharesOf(req)
    IN  IF req.action = "BUY"
        THEN IF existing # NoRow
             THEN LET new_shares == RAdd(existing.shares, shares)
                  IN  [L EXCEPT !.holdings[req.symbol] =
                          [shares |-> new_shares,
                           avg_cost |-> NewAvgCost(existing, req, new_shares)]]
             ELSE [L EXCEPT !.holdings[req.symbol] =
                      [shares |-> shares, avg_cost |-> req.price]]
        ELSE IF req.action = "SELL" /\ existing # NoRow
        THEN [L EXCEPT !.holdings[req.symbol].shares =
                 RSub(existing.shares, shares)]
        ELSE L

\* INSERT INTO transactions (symbol, action, shares, price, amount, timestamp)
TxnRow(req) ==
    [symbol |-> req.symbol, action |-> req.action, shares |-> SharesOf(req),
     price |-> req.price, amount |-> req.amount]

\* Mutant of InsertTransaction: the row replaces the table's last row.
InsertTransactionOverLast(L, req) ==
    [L EXCEPT !.txns = IF L.txns = <<>> THEN <<TxnRow(req)>>
                       ELSE [L.txns EXCEPT ![Len(L.txns)] = TxnRow(req)]]

InsertTransaction(L, req) == [L EXCEPT !.txns = Append(L.txns, TxnRow(req))]

RECURSIVE RSum(_, _)
RSum(f, S) ==
    IF S = {} THEN Zero
    ELSE LET s == CHOOSE x \in S : TRUE
         IN  RAdd(f[s], RSum(f, S \ {s}))

\* get_portfolio_status: read-only.  A holding is valued at its avg_cost
\* (the placeholder of line 70).  holdings maps each symbol to its entry of
\* holdings_list, or to NoRow when no row with shares > 0 exists for it;
\* recent_transactions is left out.
get_portfolio_status(L) ==
    LET listed == {s \in Symbols :
                      L.holdings[s] # NoRow /\ RGt(L.holdings[s].shares, Zero)}
        market_value == [s \in listed |->
                            RMul(L.holdings[s].shares, L.holdings[s].avg_cost)]
        cost_basis == market_value
        total_market_value == RSum(market_value, listed)
        total_cost == RSum(cost_basis, listed)
    IN  [cash_balance |-> Round(L.cash, 2),
         total_market_value |-> Round(total_market_value, 2),
         total_portfolio_value |-> Round(RAdd(L.cash, total_market_value), 2),
         total_pnl |-> Round(RSub(total_market_value, total_cost), 2),
         holdings |-> [s \in Symbols |->
             IF s \in listed
             THEN [shares |-> L.holdings[s].shares,
                   avg_cost |-> L.holdings[s].avg_cost,
                   current_price |-> L.holdings[s].avg_cost,
                   market_value |-> Round(market_value[s], 2),
                   pnl |-> Zero,
                   pnl_pct |-> Zero]
             ELSE NoRow]]

\* The three writes of one call, in program order.
record_transaction(L, req) ==
    InsertTransaction(UpsertHolding(UpdateCash(L, req), req), req)

\* Mutant of Autocommit: a connection opened with isolation_level=None, where
\* every statement commits by itself.
AutocommitOn == TRUE

\* sqlite3.connect(DB_PATH) with the default isolation_level: the DML
\* statements of a call run inside one implicit transaction, which only
\* conn.commit() makes visible.
Autocommit == FALSE

\* No call in flight; outcome tells how the last call ended ("none" before
\* the first call, "committed", or "raised" with the statement that raised).
Idle == [pc |-> "idle", outcome |-> "none"]
Returned == [pc |-> "idle", outcome |-> "committed"]
Raised(at) == [pc |-> "idle", outcome |-> "raised", at |-> at]

SetLedger(L) ==
    /\ cash' = L.cash
    /\ holdings' = L.holdings
    /\ txns' = L.txns

\* One statement of the call in flight: it changes the connection's view,
\* and the committed tables too when the connection autocommits.
Exec(w, next) ==
    /\ conn' = [conn EXCEPT !.work = w, !.pc = next]
    /\ IF Autocommit THEN SetLedger(w) ELSE UNCHANGED ledgerVars
    /\ UNCHANGED <<snapshots, today, market, plan, journal, call, cycles>>

\* record_transaction is entered: init_db, shares, connect (lines 110-113).
Begin(req) ==
    /\ conn.pc = "idle"
    /\ Len(txns) < MaxTxns
    /\ conn' = [pc |-> "cash", outcome |-> "none", req |-> req, work |-> Ledger]
    /\ UNCHANGED <<ledgerVars, snapshots, today, market, plan, journal, call,
                   cycles>>

ExecUpdateCash ==
    /\ conn.pc = "cash"
    /\ Exec(UpdateCash(conn.work, conn.req), "holding")

ExecUpsertHolding ==
    /\ conn.pc = "holding"
    /\ Exec(UpsertHolding(conn.work, conn.req), "insert")

ExecInsertTransaction ==
    /\ conn.pc = "insert"
    /\ Exec(InsertTransaction(conn.work, conn.req), "commit")

\* conn.commit(); conn.close()
Commit ==
    /\ conn.pc = "commit"
    /\ SetLedger(conn.work)
    /\ conn' = Returned
    /\ UNCHANGED <<snapshots, today, market, plan, journal, call, cycles>>

\* A statement or the commit raises (sqlite3.Error: database locked, disk
\* I/O, a constraint): the exception leaves the function, the connection is
\* dropped without a commit and sqlite rolls its transaction back.
Fail ==
    /\ conn.pc # "idle"
    /\ conn' = Raised(conn.pc)
    /\ UNCHANGED <<ledgerVars, snapshots, today, market, plan, journal, call,
                   cycles>>

NoMarket == [s \in Symbols |-> Zero]
NoPlan == [absent |-> TRUE]
NoCall == [op |-> "none"]

\* The two decision cycles that may run against one store, and a cycle that
\* has not begun.
Cycles == {1, 2}
NotBegun == [pc |-> "start"]

Init ==
    /\ cash = R(InitialCash)
    /\ holdings = [s \in Symbols |-> NoRow]
    /\ txns = <<>>
    /\ conn = Idle
    /\ snapshots = {}
    /\ today = 0
    /\ market = NoMarket
    /\ plan = NoPlan
    /\ journal = <<>>
    /\ call = NoCall
    /\ cycles = [c \in Cycles |-> NotBegun]

Next ==
    \/ \E req \in Requests : Begin(req)
    \/ ExecUpdateCash
    \/ ExecUpsertHolding
    \/ ExecInsertTransaction
    \/ Commit
    \/ Fail

Spec == Init /\ [][Next]_vars

-----------------------------------------------------------------------------
(* The risk manager: analysis/risk_manager.py.                             *)

\* _load_config: the risk_management defaults (lines 25-33).
max_position_pct == Frac(15, 100)
total_deployment_cap == Frac(50, 100)
daily_loss_halt_pct == Frac(-5, 100)

\* Bound on the day number date.today() reaches.
MaxDay == 1

\* Bound on the record_transaction calls of one behaviour of SpecStore.
MaxStoreTxns == 2

\* Quotes _get_current_price returns; 0 is its "no price" result.
Quotes == {0, 9}

\* Calls of record_transaction between the risk manager's operations.
StoreRequests ==
    {[symbol |-> "PTT", action |-> "BUY", amount |-> R(60000), price |-> R(10)],
     [symbol |-> "PTT", action |-> "BUY", amount |-> R(50000), price |-> R(10)],
     [symbol |-> "PTT", action |-> "BUY", amount |-> R(120000), price |-> R(0)],
     [symbol |-> "PTT", action |-> "SELL", amount |-> R(60000), price |-> R(10)]}

\* _get_portfolio_data: the cash balance and the holdings with shares > 0.
_get_portfolio_data(L) ==
    [cash |-> L.cash,
     holdings |-> {s \in Symbols :
                      L.holdings[s] # NoRow /\ RGt(L.holdings[s].shares, Zero)}]

\* price = _get_current_price(h["symbol"]) or h["avg_cost"]
PriceOr(L, m, s) == IF m[s] # Zero THEN m[s] ELSE L.holdings[s].avg_cost

\* total_market: the sum of shares * price over the holdings.
TotalMarket(L, m) ==
    LET data == _get_portfolio_data(L)
    IN  RSum([s \in data.holdings |->
                 RMul(L.holdings[s].shares, PriceOr(L, m, s))], data.holdings)

TotalValue(L, m) == RAdd(_get_portfolio_data(L).cash, TotalMarket(L, m))

\* Mutant of PreviousSnapshots: WHERE snapshot_date <= ?
PreviousSnapshotsInclusive(S, d) == {r \in S : r.snapshot_date <= d}

\* WHERE snapshot_date < ? ORDER BY snapshot_date DESC LIMIT 1: the candidate
\* rows, and the one the query returns.
PreviousSnapshots(S, d) == {r \in S : r.snapshot_date < d}

LatestOf(rows) ==
    CHOOSE r \in rows : \A o \in rows : o.snapshot_date <= r.snapshot_date

\* INSERT ... ON CONFLICT(snapshot_date) DO UPDATE SET ... = excluded. ...
Upsert(S, row) ==
    {r \in S : r.snapshot_date # row.snapshot_date} \cup {row}

\* record_daily_snapshot: the table after the call (created_at left out).
record_daily_snapshot(S, L, m, d) ==
    LET total_market == TotalMarket(L, m)
        total_value == TotalValue(L, m)
        prev == PreviousSnapshots(S, d)
        daily_pnl == IF prev # {}
                     THEN RSub(total_value, LatestOf(prev).total_value)
                     ELSE Zero
        daily_pnl_pct ==
            IF prev # {} /\ RGt(LatestOf(prev).total_value, Zero)
            THEN RDiv(daily_pnl, LatestOf(prev).total_value)
            ELSE Zero
    IN  Upsert(S, [snapshot_date |-> d,
                   total_value |-> total_value,
                   cash_balance |-> L.cash,
                   market_value |-> total_market,
                   daily_pnl |-> daily_pnl,
                   daily_pnl_pct |-> daily_pnl_pct])

\* halt_active = daily_change <= halt_pct
HaltTest(daily_change, halt_pct) == RLe(daily_change, halt_pct)

\* check_daily_loss_halt: read-only apart from creating the table.
check_daily_loss_halt(S, L, m, d) ==
    LET current_total == TotalValue(L, m)
        prev == PreviousSnapshots(S, d)
    IN  IF prev = {}
        THEN [halt_active |-> FALSE,
              reason |-> "No previous snapshot",
              current_value |-> Round(current_total, 2)]
        ELSE LET prev_value == LatestOf(prev).total_value
                 daily_change ==
                     IF RGt(prev_value, Zero)
                     THEN RDiv(RSub(current_total, prev_value), prev_value)
                     ELSE Zero
                 halt_active == HaltTest(daily_change, daily_loss_halt_pct)
             IN  [halt_active |-> halt_active,
                  previous_value |-> Round(prev_value, 2),
                  current_value |-> Round(current_total, 2),
                  daily_change_pct |-> Round(daily_change, 4),
                  halt_threshold |-> daily_loss_halt_pct,
                  message |-> IF halt_active THEN "HALT ACTIVE" ELSE "No halt"]

\* One whole call of record_transaction, begun and committed with no other
\* operation in between.
RecordTransaction(req) ==
    /\ conn.pc = "idle"
    /\ SetLedger(record_transaction(Ledger, req))
    /\ conn' = Returned
    /\ plan' = NoPlan
    /\ call' = NoCall
    /\ UNCHANGED <<snapshots, today, market, journal, cycles>>

\* The "snapshot" command.
RecordDailySnapshot ==
    /\ snapshots' = record_daily_snapshot(snapshots, Ledger, market, today)
    /\ plan' = NoPlan
    /\ call' = NoCall
    /\ UNCHANGED <<ledgerVars, conn, today, market, journal, cycles>>

\* Midnight passes.
NextDay ==
    /\ today < MaxDay
    /\ today' = today + 1
    /\ plan' = NoPlan
    /\ call' = NoCall
    /\ UNCHANGED <<ledgerVars, conn, snapshots, market, journal, cycles>>

\* The price feed moves the quote of a symbol that has a holding row (no
\* other symbol's quote is ever read).
PriceTick(s, q) ==
    /\ holdings[s] # NoRow
    /\ market[s] # R(q)
    /\ market' = [market EXCEPT ![s] = R(q)]
    /\ plan' = NoPlan
    /\ call' = NoCall
    /\ UNCHANGED <<ledgerVars, conn, snapshots, today, journal, cycles>>

NextStore ==
    \/ \E req \in StoreRequests :
          Len(txns) < MaxStoreTxns /\ RecordTransaction(req)
    \/ RecordDailySnapshot
    \/ NextDay
    \/ \E s \in Symbols, q \in Quotes : PriceTick(s, q)

SpecStore == Init /\ [][NextStore]_vars

-----------------------------------------------------------------------------
(* Position sizing (analysis/position_sizing.py), the position-limit check *)
(* and the action plan (agents/action_plan_agent.py).                      *)

\* calculate_position_size's defaults (lines 8-9).
sizing_max_position_pct == Frac(20, 100)
min_position_thb == 5000

\* SET board lot: int(raw_amount / current_price / 100) * 100 (line 36).
BoardLot == 100

\* generate_action_plan's default budget (line 167).
DefaultBudget == 100000

\* Action thresholds of lines 208-211.
BuyAbove == 30
SellBelow == -30

\* Mutant of calculate_position_size: the share count is not floored to a
\* board lot.
calculate_position_size_no_lot(budget, conviction_score, current_price) ==
    IF \/ RLe(budget, Zero)
       \/ RLe(conviction_score, Zero)
       \/ RLe(current_price, Zero)
    THEN Zero
    ELSE LET max_position == RMul(budget, sizing_max_position_pct)
             conviction_factor ==
                 RMax(Frac(3, 10), RMin(R(1), RDiv(conviction_score, R(100))))
             raw_amount == RMul(max_position, conviction_factor)
             shares == RDiv(raw_amount, current_price)
             amount == RMul(shares, current_price)
         IN  IF RLt(amount, R(min_position_thb)) THEN Zero
             ELSE Round(amount, 2)

calculate_position_size(budget, conviction_score, current_price) ==
    IF \/ RLe(budget, Zero)
       \/ RLe(conviction_score, Zero)
       \/ RLe(current_price, Zero)
    THEN Zero
    ELSE LET max_position == RMul(budget, sizing_max_position_pct)
             conviction_factor ==
                 RMax(Frac(3, 10), RMin(R(1), RDiv(conviction_score, R(100))))
             raw_amount == RMul(max_position, conviction_factor)
             shares == RFloor(RDiv(RDiv(raw_amount, current_price), R(BoardLot)))
                           * BoardLot
             amount == RMul(R(shares), current_price)
         IN  IF RLt(amount, R(min_position_thb)) THEN Zero
             ELSE Round(amount, 2)

\* Mutant of LimitsReport: the two allowances are not floored at 0.
LimitsReportNoFloor(symbol, amount, total_value, total_market, existing_value) ==
    LET position_pct ==
            IF RGt(total_value, Zero)
            THEN RDiv(RAdd(existing_value, amount), total_value) ELSE Zero
        max_allowed_position ==
            RSub(RMul(total_value, max_position_pct), existing_value)
        new_deployed ==
            IF RGt(total_value, Zero)
            THEN RDiv(RAdd(total_market, amount), total_value) ELSE Zero
        max_deploy_amount ==
            RSub(RMul(total_value, total_deployment_cap), total_market)
        warnings ==
            (IF RGt(position_pct, max_position_pct)
             THEN <<"Position limit">> ELSE <<>>)
            \o (IF RGt(new_deployed, total_deployment_cap)
                THEN <<"Deployment cap">> ELSE <<>>)
    IN  [symbol |-> symbol,
         requested_amount |-> amount,
         allowed |-> (Len(warnings) = 0),
         allowed_amount |->
             Round(RMin(RMin(max_allowed_position, max_deploy_amount),
                        amount), 2),
         position_pct |-> Round(position_pct, 4),
         deployment_pct |-> Round(new_deployed, 4),
         warnings |-> warnings]

\* The body of check_position_limits from line 143 on, given the three
\* values its loop computed.  warnings holds the kinds of the messages, in
\* the order they are appended.
LimitsReport(symbol, amount, total_value, total_market, existing_value) ==
    LET position_pct ==
            IF RGt(total_value, Zero)
            THEN RDiv(RAdd(existing_value, amount), total_value) ELSE Zero
        max_allowed_position ==
            RSub(RMul(total_value, max_position_pct), existing_value)
        new_deployed ==
            IF RGt(total_value, Zero)
            THEN RDiv(RAdd(total_market, amount), total_value) ELSE Zero
        max_deploy_amount ==
            RSub(RMul(total_value, total_deployment_cap), total_market)
        warnings ==
            (IF RGt(position_pct, max_position_pct)
             THEN <<"Position limit">> ELSE <<>>)
            \o (IF RGt(new_deployed, total_deployment_cap)
                THEN <<"Deployment cap">> ELSE <<>>)
    IN  [symbol |-> symbol,
         requested_amount |-> amount,
         allowed |-> (Len(warnings) = 0),
         allowed_amount |->
             Round(RMin(RMin(RMax(Zero, max_allowed_position),
                             RMax(Zero, max_deploy_amount)), amount), 2),
         position_pct |-> Round(position_pct, 4),
         deployment_pct |-> Round(new_deployed, 4),
         warnings |-> warnings]

\* Mutant of ExistingValue: the symbol's own holding is not counted.
ExistingValueIgnored(L, m, symbol) == Zero

\* existing_value: the value of the symbol's own holding (lines 137-138).
ExistingValue(L, m, symbol) ==
    IF symbol \in _get_portfolio_data(L).holdings
    THEN RMul(L.holdings[symbol].shares, PriceOr(L, m, symbol))
    ELSE Zero

\* Mutant of check_position_limits: the proposed amount is counted as new
\* portfolio value.
check_position_limits_inflated(L, m, symbol, amount) ==
    LimitsReport(symbol, amount, RAdd(TotalValue(L, m), amount),
                 TotalMarket(L, m), ExistingValue(L, m, symbol))

\* check_position_limits: read-only.
check_position_limits(L, m, symbol, amount) ==
    LimitsReport(symbol, amount, TotalValue(L, m), TotalMarket(L, m),
                 ExistingValue(L, m, symbol))

\* data/watchlist.json, in file order.
Watchlist == <<"PTT", "AOT">>

\* What _run_full_analysis gives for one symbol: the composite score and the
\* technical close, or an exception raised inside the loop's try block.
Scores == {-40, 20, 30, 80}
Closes == {0, 10}
Analyses ==
    {[raises |-> TRUE]}
    \cup [raises : {FALSE}, score : {R(x) : x \in Scores},
          close : {R(c) : c \in Closes}]

\* Mutant of HaltApplies: the halt flag is not consulted.
HaltIgnored(halt_active) == FALSE

\* if halt_active: (line 221)
HaltApplies(halt_active) == halt_active

\* if score > 30 ... elif score < -30 ... else (lines 208-213)
Tentative(score) ==
    IF RGt(score, R(BuyAbove)) THEN "BUY"
    ELSE IF RLt(score, R(SellBelow)) THEN "SELL"
    ELSE "HOLD"

\* Lines 231-243: the sized amount against the position limits.  calls lists
\* the collaborators the iteration called, in order, and limit is what
\* check_position_limits returned to it (NoRow when it was not called).
Limited(sized, limit_check) ==
    IF ~RGt(sized, Zero)
    THEN [action |-> "BUY", amount |-> sized, warnings |-> <<>>,
          calls |-> <<"calculate_position_size">>, limit |-> NoRow]
    ELSE IF limit_check.allowed
    THEN [action |-> "BUY", amount |-> sized, warnings |-> <<>>,
          calls |-> <<"calculate_position_size", "check_position_limits">>,
          limit |-> limit_check]
    ELSE IF RGt(limit_check.allowed_amount, Zero)
    THEN [action |-> "BUY", amount |-> limit_check.allowed_amount,
          warnings |-> limit_check.warnings \o <<"Amount reduced">>,
          calls |-> <<"calculate_position_size", "check_position_limits">>,
          limit |-> limit_check]
    ELSE [action |-> "HOLD", amount |-> Zero,
          warnings |-> limit_check.warnings \o <<"BUY blocked">>,
          calls |-> <<"calculate_position_size", "check_position_limits">>,
          limit |-> limit_check]

\* Lines 216-243: the action, amount and risk warnings of a scored symbol.
Decide(L, m, symbol, halt_active, tentative, sized) ==
    IF tentative # "BUY"
    THEN [action |-> tentative, amount |-> Zero,
          warnings |-> <<>>, calls |-> <<>>, limit |-> NoRow]
    ELSE IF HaltApplies(halt_active)
    THEN [action |-> "HOLD", amount |-> Zero,
          warnings |-> <<"Daily loss halt active">>, calls |-> <<>>,
          limit |-> NoRow]
    ELSE Limited(sized, check_position_limits(L, m, symbol, sized))

\* Lines 245-259: rec is the recommendation appended to actions, warnings
\* what the iteration adds to risk_warnings.  rec.calls and rec.limit are
\* not fields of the source's recommendation.
Emit(symbol, score, out) ==
    [rec |-> [symbol |-> symbol,
              action |-> out.action,
              composite_score |-> Round(score, 2),
              amount_thb |-> Round(out.amount, 2),
              risk |-> out.warnings,
              calls |-> out.calls,
              limit |-> out.limit],
     warnings |-> out.warnings]

\* One iteration of the loop of lines 197-267.
Recommend(L, m, budget, halt_active, symbol, analysis) ==
    IF analysis.raises
    THEN [rec |-> [symbol |-> symbol, action |-> "SKIP", error |-> "raised"],
          warnings |-> <<>>]
    ELSE Emit(symbol, analysis.score,
              Decide(L, m, symbol, halt_active, Tentative(analysis.score),
                     calculate_position_size(budget, analysis.score,
                                             analysis.close)))

RECURSIVE Flatten(_)
Flatten(ss) == IF ss = <<>> THEN <<>> ELSE Head(ss) \o Flatten(Tail(ss))

CountOf(actions, a) ==
    Cardinality({i \in 1..Len(actions) : actions[i].action = a})

\* _summarize
_summarize(actions) ==
    LET buys == {i \in 1..Len(actions) : actions[i].action = "BUY"}
    IN  [buy_count |-> CountOf(actions, "BUY"),
         sell_count |-> CountOf(actions, "SELL"),
         hold_count |-> CountOf(actions, "HOLD"),
         skip_count |-> CountOf(actions, "SKIP"),
         total_buy_amount |->
             RSum([i \in buys |-> actions[i].amount_thb], buys)]

\* Lines 269-276: the returned plan.
Assemble(budget, daily_halt, each) ==
    [budget |-> budget,
     halt_active |-> daily_halt.halt_active,
     actions |-> [i \in 1..Len(Watchlist) |-> each[i].rec],
     summary |-> _summarize([i \in 1..Len(Watchlist) |-> each[i].rec]),
     risk_warnings |->
         (IF daily_halt.halt_active THEN <<daily_halt.message>> ELSE <<>>)
         \o Flatten([i \in 1..Len(Watchlist) |-> each[i].warnings])]

\* Lines 197-267: the loop over the watchlist.
Loop(L, m, budget, daily_halt, analyses) ==
    Assemble(budget, daily_halt,
             [i \in 1..Len(Watchlist) |->
                 Recommend(L, m, budget, daily_halt.halt_active,
                           Watchlist[i], analyses[i])])

\* generate_action_plan(budget): analyses[i] is what the pipeline gives for
\* the i-th watchlist symbol.
generate_action_plan(S, L, m, d, budget, analyses) ==
    Loop(L, m, budget, check_daily_loss_halt(S, L, m, d), analyses)

\* Bound on the record_transaction calls of one behaviour of SpecPlan.
MaxPlanTxns == 1

\* Calls of record_transaction before a plan is generated.
PlanRequests ==
    {[symbol |-> "PTT", action |-> "BUY", amount |-> R(60000), price |-> R(10)],
     [symbol |-> "PTT", action |-> "BUY", amount |-> R(100000), price |-> R(0)]}

\* The action-plan command, with the default budget.  plan holds what the
\* last command returned, and any other operation clears it (as it clears
\* call); a run that directly follows another run is not a separate step,
\* as it would only recompute a plan from the same state.
GenerateActionPlan(analyses) ==
    /\ plan = NoPlan
    /\ plan' = generate_action_plan(snapshots, Ledger, market, today,
                                    R(DefaultBudget), analyses)
    /\ call' = NoCall
    /\ UNCHANGED <<ledgerVars, conn, snapshots, today, market, journal, cycles>>

NextPlan ==
    \/ \E req \in PlanRequests :
          Len(txns) < MaxPlanTxns /\ RecordTransaction(req)
    \/ RecordDailySnapshot
    \/ NextDay
    \/ \E s \in Symbols, q \in Quotes : PriceTick(s, q)
    \/ \E analyses \in [1..Len(Watchlist) -> Analyses] :
          GenerateActionPlan(analyses)

SpecPlan == Init /\ [][NextPlan]_vars

-----------------------------------------------------------------------------
(* Position sizing and the composite scorers called on their own.          *)

\* Arguments calculate_position_size is called with.  Prices are quoted to
\* the satang (two decimals).
SizingBudgets == {R(-5000), R(0), R(33333), R(100000)}
Convictions == {R(-20), R(0), R(10), R(30), R(45), R(80), R(100), R(150)}
SizingPrices == {R(0), Frac(1, 4), Frac(7, 2), Frac(617, 50), R(50), R(333)}

\* A reporting operation is called on its own.  call holds the last report
\* until the state moves on; a call that directly follows another report is
\* not a separate step, as it would only overwrite the report.
CalculatePositionSize(budget, conviction_score, current_price) ==
    /\ call = NoCall
    /\ call' = [op |-> "calculate_position_size",
                budget |-> budget,
                conviction_score |-> conviction_score,
                current_price |-> current_price,
                result |-> calculate_position_size(budget, conviction_score,
                                                   current_price)]
    /\ UNCHANGED <<ledgerVars, conn, snapshots, today, market, plan, journal,
                   cycles>>

\* The keys of the scores dict.
SignalNames ==
    {"technical", "sentiment", "volume", "fundamental", "news", "fund_flow"}

None == [none |-> TRUE]

\* Mutant of Clamp: only the upper limit is applied.
ClampUpperOnly(lo, hi, x) == RMin(hi, x)

\* max(lo, min(hi, x))
Clamp(lo, hi, x) == RMax(lo, RMin(hi, x))

\* sum(scores[k] * weights.get(k, 0) for k in scores)
WeightedSum(scores, weights) ==
    RSum([k \in DOMAIN scores |->
             RMul(scores[k],
                  IF k \in DOMAIN weights THEN weights[k] ELSE Zero)],
         DOMAIN scores)

\* orchestrator.py lines 80-89: the technical score from the RSI.
TechnicalScore(technical) ==
    IF technical.error THEN Zero
    ELSE IF technical.rsi # None
    THEN Clamp(R(-100), R(100), RMul(RSub(R(50), technical.rsi), R(3)))
    ELSE Zero

\* orchestrator.py lines 80-100: the scores dict.  An errored sentiment or
\* fundamental result has no sentiment_score / fscore key, so the defaults
\* 0 and 5 apply.
SignalScores(results) ==
    [k \in SignalNames |->
        CASE k = "technical" -> TechnicalScore(results.technical)
          [] k = "sentiment" ->
                 RMul(IF results.sentiment.error THEN Zero
                      ELSE results.sentiment.sentiment_score, R(100))
          [] k = "fundamental" ->
                 RMul(RSub(IF results.fundamental.error THEN R(5)
                           ELSE results.fundamental.fscore, R(5)), R(25))
          [] OTHER -> Zero]

\* The weighted composite and what both scorers return around it.
Composite(scores, weights) ==
    [composite_score |->
         Round(Clamp(R(-100), R(100), WeightedSum(scores, weights)), 2),
     breakdown |-> [k \in DOMAIN scores |-> Round(scores[k], 2)],
     weights |-> weights]

\* agents/orchestrator.py compute_composite_score(results), with the weights
\* load_weights() read from the configuration.
compute_composite_score(results, weights) ==
    Composite(SignalScores(results), weights)

\* analysis/scoring.py lines 54-63: the five-way signal.
SignalOf(composite) ==
    IF RGt(composite, R(60)) THEN "STRONG BUY"
    ELSE IF RGt(composite, R(30)) THEN "BUY"
    ELSE IF RGt(composite, R(-30)) THEN "HOLD"
    ELSE IF RGt(composite, R(-60)) THEN "SELL"
    ELSE "STRONG SELL"

\* analysis/scoring.py compute_composite_score(technical_score, ...), with
\* the six keyword arguments as one mapping.
scoring_compute_composite_score(scores, weights) ==
    [composite_score |-> Composite(scores, weights).composite_score,
     signal |-> SignalOf(Clamp(R(-100), R(100), WeightedSum(scores, weights))),
     breakdown |-> Composite(scores, weights).breakdown,
     weights |-> weights]

\* Weight mappings the configuration may supply: one that sums to 1, one
\* that sums to 12, one with a single key, one with a negative weight.
WeightSets ==
    {[k \in SignalNames |->
         CASE k = "technical" -> Frac(30, 100)
           [] k = "sentiment" -> Frac(20, 100)
           [] k = "fundamental" -> Frac(25, 100)
           [] k = "fund_flow" -> Frac(5, 100)
           [] OTHER -> Frac(10, 100)],
     [k \in SignalNames |-> R(2)],
     [k \in {"fundamental"} |-> Frac(30, 100)],
     [k \in {"technical", "sentiment"} |-> R(-3)]}

\* Collaborator results: an error, or the fields the scorer reads.  RSI 200,
\* sentiment 3 and F-Score 40 are outside the signal contract.
TechnicalResults ==
    {[error |-> TRUE]}
    \cup [error : {FALSE}, rsi : {None, R(0), R(25), R(50), R(100), R(200)}]
SentimentResults ==
    {[error |-> TRUE]}
    \cup [error : {FALSE},
          sentiment_score : {R(-1), R(0), Frac(1, 2), R(1), R(3)}]
FundamentalResults ==
    {[error |-> TRUE]}
    \cup [error : {FALSE}, fscore : {R(0), R(5), R(7), R(9), R(40)}]
AgentResults ==
    [technical : TechnicalResults, sentiment : SentimentResults,
     fundamental : FundamentalResults]

\* Arguments of scoring.compute_composite_score.
ScoreValues == {R(-200), R(0), R(100)}

ComputeCompositeScore(results, weights) ==
    /\ call = NoCall
    /\ call' = [op |-> "compute_composite_score",
                results |-> results,
                scores |-> SignalScores(results),
                weights |-> weights,
                result |-> compute_composite_score(results, weights)]
    /\ UNCHANGED <<ledgerVars, conn, snapshots, today, market, plan, journal,
                   cycles>>

ScoringComputeCompositeScore(scores, weights) ==
    /\ call = NoCall
    /\ call' = [op |-> "scoring.compute_composite_score",
                scores |-> scores,
                weights |-> weights,
                result |-> scoring_compute_composite_score(scores, weights)]
    /\ UNCHANGED <<ledgerVars, conn, snapshots, today, market, plan, journal,
                   cycles>>

\* position_sizing.py kelly_criterion: the fraction it returns, or the
\* exception that leaves it.  b = avg_win / avg_loss is 0 when avg_win is 0,
\* and the float division by b of line 65 then raises ZeroDivisionError.
kelly_criterion(win_rate, avg_win, avg_loss) ==
    IF RLe(avg_loss, Zero) \/ RLe(win_rate, Zero)
    THEN [value |-> Zero]
    ELSE IF RDiv(avg_win, avg_loss) = Zero
    THEN [raised |-> "ZeroDivisionError"]
    ELSE LET b == RDiv(avg_win, avg_loss)
             q == RSub(R(1), win_rate)
             kelly == RDiv(RSub(RMul(win_rate, b), q), b)
         IN  [value |-> RMax(Zero, RMin(Frac(1, 2), RDiv(kelly, R(2))))]

\* Arguments kelly_criterion is called with.
WinRates == {Frac(-1, 2), R(0), Frac(2, 5), Frac(3, 5), R(1), Frac(3, 2)}
AvgWins == {R(-100), R(0), R(100), R(300)}
AvgLosses == {R(-50), R(0), R(100)}

KellyCriterion(win_rate, avg_win, avg_loss) ==
    /\ call = NoCall
    /\ call' = [op |-> "kelly_criterion",
                win_rate |-> win_rate,
                avg_win |-> avg_win,
                avg_loss |-> avg_loss,
                result |-> kelly_criterion(win_rate, avg_win, avg_loss)]
    /\ UNCHANGED <<ledgerVars, conn, snapshots, today, market, plan, journal,
                   cycles>>

NextScoring ==
    \/ \E b \in SizingBudgets, c \in Convictions, p \in SizingPrices :
          CalculatePositionSize(b, c, p)
    \/ \E w \in WinRates, g \in AvgWins, l \in AvgLosses :
          KellyCriterion(w, g, l)
    \/ \E results \in AgentResults, weights \in WeightSets :
          ComputeCompositeScore(results, weights)
    \/ \E scores \in [SignalNames -> ScoreValues], weights \in WeightSets :
          ScoringComputeCompositeScore(scores, weights)

SpecScoring == Init /\ [][NextScoring]_vars

-----------------------------------------------------------------------------
(* The risk manager's reports called on their own: check-buy and           *)
(* stop-losses of analysis/risk_manager.py.                                *)

\* _load_config: the stop_loss_pct default (line 27).
stop_loss_pct == Frac(-15, 100)

\* current = _get_current_price(symbol); if current <= 0: current = avg_cost
CurrentOr(L, m, s) ==
    IF RLe(m[s], Zero) THEN L.holdings[s].avg_cost ELSE m[s]

\* if pnl_pct <= stop_pct (line 209)
StopTest(pnl_pct, stop_pct) == RLe(pnl_pct, stop_pct)

\* One entry of the alerts list (lines 192-220).
StopLossEntry(L, s, current) ==
    LET h == L.holdings[s]
        pnl_pct == IF RGt(h.avg_cost, Zero)
                   THEN RDiv(RSub(current, h.avg_cost), h.avg_cost)
                   ELSE Zero
    IN  [symbol |-> s,
         shares |-> h.shares,
         avg_cost |-> h.avg_cost,
         current_price |-> Round(current, 2),
         pnl_pct |-> Round(pnl_pct, 4),
         market_value |-> Round(RMul(h.shares, current), 2),
         stop_loss_threshold |-> stop_loss_pct,
         triggered |-> StopTest(pnl_pct, stop_loss_pct)]

\* check_stop_losses: read-only.  The alerts list, as a mapping from each
\* holding's symbol to its entry.
check_stop_losses(L, m) ==
    [s \in _get_portfolio_data(L).holdings |->
        StopLossEntry(L, s, CurrentOr(L, m, s))]

\* Bound on the record_transaction calls of one behaviour of SpecRisk.
MaxRiskTxns == 3

\* Quotes of SpecRisk: none, 20% and exactly 15% below a cost of 10.
RiskQuotes == {R(0), R(8), Frac(17, 2)}

\* Calls of record_transaction before a report.
RiskRequests ==
    {[symbol |-> "PTT", action |-> "BUY", amount |-> R(30000), price |-> R(10)],
     [symbol |-> "PTT", action |-> "SELL", amount |-> R(60000), price |-> R(10)],
     [symbol |-> "PTT", action |-> "BUY", amount |-> R(20000), price |-> R(5)],
     [symbol |-> "AOT", action |-> "BUY", amount |-> R(10000), price |-> R(20)],
     [symbol |-> "AOT", action |-> "BUY", amount |-> R(100000), price |-> R(0)]}

\* Amounts check-buy is asked about.
ProposedAmounts == {R(0), R(10000), R(20000), R(60000)}

\* The price feed of SpecRisk.
RiskPriceTick(s, q) ==
    /\ holdings[s] # NoRow
    /\ market[s] # q
    /\ market' = [market EXCEPT ![s] = q]
    /\ call' = NoCall
    /\ UNCHANGED <<ledgerVars, conn, snapshots, today, plan, journal, cycles>>

\* The "check-buy" command.
CheckPositionLimits(symbol, amount) ==
    /\ call = NoCall
    /\ call' = [op |-> "check_position_limits",
                symbol |-> symbol,
                amount |-> amount,
                result |-> check_position_limits(Ledger, market, symbol, amount)]
    /\ UNCHANGED <<ledgerVars, conn, snapshots, today, market, plan, journal,
                   cycles>>

\* The "stop-losses" command.
CheckStopLosses ==
    /\ call = NoCall
    /\ call' = [op |-> "check_stop_losses",
                result |-> check_stop_losses(Ledger, market)]
    /\ UNCHANGED <<ledgerVars, conn, snapshots, today, market, plan, journal,
                   cycles>>

NextRisk ==
    \/ \E req \in RiskRequests :
          Len(txns) < MaxRiskTxns /\ RecordTransaction(req)
    \/ \E s \in Symbols, q \in RiskQuotes : RiskPriceTick(s, q)
    \/ \E s \in Symbols, a \in ProposedAmounts : CheckPositionLimits(s, a)
    \/ CheckStopLosses

SpecRisk == Init /\ [][NextRisk]_vars

-----------------------------------------------------------------------------
(* The trade journal: analysis/trade_journal.py.  The text columns         *)
(* (reasoning, strategy, signals_at_entry, outcome, lessons) and the dates *)
(* are left out.  created_at is the clock reading of the insert; the clock *)
(* moves on between two calls, so it is the number of the insert.          *)

\* CHECK(status IN ('OPEN', 'CLOSED', 'STOPPED_OUT')) of line 57.
JournalStatuses == {"OPEN", "CLOSED", "STOPPED_OUT"}

\* The row open_trade inserts: exit_price is NULL, pnl and pnl_pct take the
\* column default 0.
JournalRow(J, a) ==
    [id |-> Len(J) + 1,
     symbol |-> a.symbol,
     action |-> a.action,
     entry_price |-> a.price,
     exit_price |-> None,
     shares |-> a.shares,
     amount |-> a.amount,
     pnl |-> Zero,
     pnl_pct |-> Zero,
     status |-> "OPEN",
     created_at |-> Len(J) + 1]

\* open_trade: the table after the call and what the call returns.  An
\* action outside ('BUY', 'SELL') fails the CHECK of line 43 and the insert
\* raises sqlite3.IntegrityError.
open_trade(J, a) ==
    IF a.action \notin Actions
    THEN [journal |-> J, result |-> [raised |-> "IntegrityError"]]
    ELSE [journal |-> Append(J, JournalRow(J, a)),
          result |-> [id |-> Len(J) + 1,
                      symbol |-> a.symbol,
                      action |-> a.action,
                      entry_price |-> a.price,
                      shares |-> a.shares,
                      amount |-> a.amount,
                      status |-> "OPEN"]]

\* Mutant of OpenRows: the status filter is dropped.
AnyRows(J) == 1..Len(J)

\* ... AND status = 'OPEN' (lines 146 and 149)
OpenRows(J) == {i \in 1..Len(J) : J[i].status = "OPEN"}

\* Mutant of MostRecent: ORDER BY created_at ASC.
LeastRecent(J, rows) ==
    {i \in rows : \A o \in rows : J[i].created_at <= J[o].created_at}

\* ORDER BY created_at DESC LIMIT 1
MostRecent(J, rows) ==
    {i \in rows : \A o \in rows : J[o].created_at <= J[i].created_at}

\* A symbol argument that is None or empty.
NoSymbol == ""

\* Lines 145-151: the row fetchone() returns, as a set with at most one
\* element.  trade_id 0 and symbol NoSymbol are the falsy arguments.
FindTrade(J, trade_id, symbol) ==
    IF trade_id # 0
    THEN {i \in OpenRows(J) : J[i].id = trade_id}
    ELSE MostRecent(J, {i \in OpenRows(J) : J[i].symbol = symbol})

\* Lines 161-170.
PnlOf(trade, exit_price) ==
    IF trade.action = "BUY"
    THEN RMul(RSub(exit_price, trade.entry_price), trade.shares)
    ELSE RMul(RSub(trade.entry_price, exit_price), trade.shares)

PnlPctOf(trade, pnl) ==
    IF RGt(RMul(trade.entry_price, trade.shares), Zero)
    THEN RDiv(pnl, RMul(trade.entry_price, trade.shares))
    ELSE Zero

\* Lines 172-193: the UPDATE of the row found and the returned dict.  A
\* status outside JournalStatuses fails the CHECK and the UPDATE raises.
CloseFound(J, i, exit_price, status, pnl, pnl_pct) ==
    IF status \notin JournalStatuses
    THEN [journal |-> J, result |-> [raised |-> "IntegrityError"]]
    ELSE [journal |-> [J EXCEPT ![i].exit_price = exit_price,
                                ![i].pnl = Round(pnl, 2),
                                ![i].pnl_pct = Round(pnl_pct, 4),
                                ![i].status = status],
          result |-> [id |-> J[i].id,
                      symbol |-> J[i].symbol,
                      action |-> J[i].action,
                      entry_price |-> J[i].entry_price,
                      exit_price |-> exit_price,
                      shares |-> J[i].shares,
                      pnl |-> Round(pnl, 2),
                      pnl_pct |-> Round(pnl_pct, 4),
                      status |-> status]]

\* close_trade: the table after the call and what the call returns.
close_trade(J, trade_id, symbol, exit_price, status) ==
    IF trade_id = 0 /\ symbol = NoSymbol
    THEN [journal |-> J, result |-> [error |-> "Provide trade_id or symbol"]]
    ELSE IF FindTrade(J, trade_id, symbol) = {}
    THEN [journal |-> J, result |-> [error |-> "No open trade found"]]
    ELSE LET i == CHOOSE r \in FindTrade(J, trade_id, symbol) : TRUE
         IN  CloseFound(J, i, exit_price, status, PnlOf(J[i], exit_price),
                        PnlPctOf(J[i], PnlOf(J[i], exit_price)))

\* Bound on the rows of the journal.
MaxJournal == 2

\* Bound on the record_transaction calls of one behaviour of SpecBooks.
MaxJournalTxns == 1

\* Arguments open_trade is called with; the last has an action the table
\* rejects.
OpenRequests ==
    {[symbol |-> "PTT", action |-> "BUY", price |-> R(30),
      shares |-> R(100), amount |-> R(3000)],
     [symbol |-> "PTT", action |-> "SELL", price |-> R(30),
      shares |-> R(100), amount |-> R(3000)],
     [symbol |-> "AOT", action |-> "BUY", price |-> R(0),
      shares |-> R(100), amount |-> R(0)],
     [symbol |-> "AOT", action |-> "HOLD", price |-> R(30),
      shares |-> R(100), amount |-> R(3000)]}

\* Arguments close_trade is called with: the key (a trade id, a symbol,
\* both or neither), and the exit price and status; "VOID" is a status the
\* table rejects.
CloseKeys ==
    [trade_id : 1..(MaxJournal + 1), symbol : {NoSymbol}]
    \cup [trade_id : {0},
          symbol : {a.symbol : a \in OpenRequests} \cup {NoSymbol}]
    \cup {[trade_id |-> MaxJournal + 1, symbol |-> "PTT"]}
CloseWith ==
    {[exit_price |-> R(31), status |-> "CLOSED"],
     [exit_price |-> R(27), status |-> "STOPPED_OUT"],
     [exit_price |-> R(27), status |-> "OPEN"],
     [exit_price |-> R(31), status |-> "VOID"]}

\* The ledger call made next to the journal: a BUY the cash does not cover.
JournalRequests ==
    {[symbol |-> "PTT", action |-> "BUY", amount |-> R(120000), price |-> R(10)]}

\* Mutant of OpenTrade: the journal entry is also booked in the ledger.
OpenTradeBooked(a) ==
    /\ Len(journal) < MaxJournal
    /\ journal' = open_trade(journal, a).journal
    /\ call' = [op |-> "open_trade", args |-> a,
                result |-> open_trade(journal, a).result]
    /\ SetLedger(record_transaction(Ledger,
           [symbol |-> a.symbol, action |-> a.action,
            amount |-> a.amount, price |-> a.price]))
    /\ UNCHANGED <<conn, snapshots, today, market, plan, cycles>>

OpenTrade(a) ==
    /\ Len(journal) < MaxJournal
    /\ journal' = open_trade(journal, a).journal
    /\ call' = [op |-> "open_trade", args |-> a,
                result |-> open_trade(journal, a).result]
    /\ UNCHANGED <<ledgerVars, conn, snapshots, today, market, plan, cycles>>

CloseTrade(key, with) ==
    /\ LET done == close_trade(journal, key.trade_id, key.symbol,
                               with.exit_price, with.status)
       IN  /\ journal' = done.journal
           /\ call' = [op |-> "close_trade", key |-> key,
                       result |-> done.result]
    /\ UNCHANGED <<ledgerVars, conn, snapshots, today, market, plan, cycles>>

\* The calls of close_trade: by symbol with every exit price and status, by
\* trade id with the default status.
CloseCalls ==
    {c \in [key : CloseKeys, with : CloseWith] :
        c.key.trade_id # 0 => c.with.status = "CLOSED"}

\* The journal commands on their own.
NextJournal ==
    \/ \E a \in OpenRequests : OpenTrade(a)
    \/ \E c \in CloseCalls : CloseTrade(c.key, c.with)

SpecJournal == Init /\ [][NextJournal]_vars

\* The journal commands between the ledger's, as a caller that keeps the two
\* in step issues them: one kind of entry, closed by symbol.
BookOpenRequests == {a \in OpenRequests : a.symbol = "PTT" /\ a.action = "BUY"}
BookCloseKeys == {[trade_id |-> 0, symbol |-> "PTT"]}
BookCloseWith == {w \in CloseWith : w.status \in {"CLOSED", "STOPPED_OUT"}}

NextBooks ==
    \/ \E a \in BookOpenRequests : OpenTrade(a)
    \/ \E key \in BookCloseKeys, with \in BookCloseWith : CloseTrade(key, with)
    \/ \E req \in JournalRequests :
          Len(txns) < MaxJournalTxns /\ RecordTransaction(req)
    \/ RecordDailySnapshot

SpecBooks == Init /\ [][NextBooks]_vars

-----------------------------------------------------------------------------
(* The combined risk report: check_portfolio_risk of                       *)
(* analysis/risk_manager.py with the heat and sector checks it calls.      *)

\* _load_config: the defaults of lines 30-32.
max_sector_pct == Frac(40, 100)
portfolio_heat_high == Frac(15, 100)
portfolio_heat_medium == Frac(8, 100)

\* compute_portfolio_heat: read-only.  vol[s] is what _get_volatility gives
\* for s (0 when it is unavailable).  positions maps each holding's symbol
\* to its entry of position_data.
compute_portfolio_heat(L, m, vol) ==
    LET held == _get_portfolio_data(L).holdings
        total_value == TotalValue(L, m)
        market_value == [s \in held |->
            Round(RMul(L.holdings[s].shares, PriceOr(L, m, s)), 2)]
        weight == [s \in held |->
            IF RGt(total_value, Zero) THEN RDiv(market_value[s], total_value)
            ELSE Zero]
        heat_contribution == [s \in held |-> RMul(weight[s], Round(vol[s], 4))]
        total_heat == RSum(heat_contribution, held)
    IN  [total_heat |-> Round(total_heat, 4),
         level |-> IF RGe(total_heat, portfolio_heat_high) THEN "HIGH"
                   ELSE IF RGe(total_heat, portfolio_heat_medium) THEN "MEDIUM"
                   ELSE "LOW",
         positions |-> [s \in held |->
             [market_value |-> market_value[s],
              volatility_20d |-> Round(vol[s], 4),
              weight |-> Round(weight[s], 4),
              heat_contribution |-> Round(heat_contribution[s], 4)]]]

\* check_sector_concentration: read-only.  sector[s] is what
\* _get_sector_for_symbol gives for s.  sectors maps each sector that has a
\* holding to its entry; warnings is the set of sectors a warning names.
check_sector_concentration(L, m, sector) ==
    LET held == _get_portfolio_data(L).holdings
        total_value == TotalValue(L, m)
        names == {sector[s] : s \in held}
        sector_values == [x \in names |->
            RSum([s \in held |-> RMul(L.holdings[s].shares, PriceOr(L, m, s))],
                 {s \in held : sector[s] = x})]
        pct == [x \in names |->
            IF RGt(total_value, Zero) THEN RDiv(sector_values[x], total_value)
            ELSE Zero]
        warnings == {x \in names : RGt(pct[x], max_sector_pct)}
    IN  [sectors |-> [x \in names |->
             [value |-> Round(sector_values[x], 2), pct |-> Round(pct[x], 4)]],
         max_sector_pct |-> max_sector_pct,
         warnings |-> warnings,
         within_limits |-> (warnings = {})]

\* A message of all_warnings: the check that wrote it and the symbol or
\* sector it names ("" when it names none).
Warning(check, of) == [check |-> check, of |-> of]

\* Mutant of AllWarnings: the heat level is not looked at.
AllWarningsNoHeat(stop_losses, daily_halt, heat, sectors) ==
    {Warning("stop_loss", s) : s \in {t \in DOMAIN stop_losses :
                                         stop_losses[t].triggered}}
    \cup (IF daily_halt.halt_active THEN {Warning("daily_halt", "")} ELSE {})
    \cup {Warning("sector", x) : x \in sectors.warnings}

\* Lines 379-388: all_warnings, as the set of its messages.
AllWarnings(stop_losses, daily_halt, heat, sectors) ==
    {Warning("stop_loss", s) : s \in {t \in DOMAIN stop_losses :
                                         stop_losses[t].triggered}}
    \cup (IF daily_halt.halt_active THEN {Warning("daily_halt", "")} ELSE {})
    \cup {Warning("sector", x) : x \in sectors.warnings}
    \cup (IF heat.level = "HIGH" THEN {Warning("heat", "")} ELSE {})

\* Lines 369-401, given the four reports of lines 365-368.
RiskReport(L, m, stop_losses, daily_halt, heat, sectors) ==
    [portfolio_value |-> Round(TotalValue(L, m), 2),
     cash |-> Round(_get_portfolio_data(L).cash, 2),
     deployment_pct |->
         Round(IF RGt(TotalValue(L, m), Zero)
               THEN RDiv(TotalMarket(L, m), TotalValue(L, m)) ELSE Zero, 4),
     stop_losses |-> stop_losses,
     daily_halt |-> daily_halt,
     heat |-> heat,
     sector_concentration |-> sectors,
     warnings |-> AllWarnings(stop_losses, daily_halt, heat, sectors),
     risk_level |->
         IF AllWarnings(stop_losses, daily_halt, heat, sectors) # {}
         THEN "HIGH" ELSE "OK"]

\* check_portfolio_risk: read-only apart from creating the snapshot table.
check_portfolio_risk(S, L, m, d, vol, sector) ==
    RiskReport(L, m, check_stop_losses(L, m), check_daily_loss_halt(S, L, m, d),
               compute_portfolio_heat(L, m, vol),
               check_sector_concentration(L, m, sector))

\* Bound on the record_transaction calls of one behaviour of SpecReport.
MaxReportTxns == 2

\* Calls of record_transaction before a report.
ReportRequests ==
    {[symbol |-> "PTT", action |-> "BUY", amount |-> R(30000), price |-> R(10)],
     [symbol |-> "AOT", action |-> "BUY", amount |-> R(30000), price |-> R(20)]}

\* What _get_volatility returns, and what _get_sector_for_symbol finds in
\* the watchlist file ("Unknown" for a symbol it does not list).
Volatilities == {R(0), Frac(1, 2)}
SectorMaps ==
    {[s \in Symbols |-> "Energy"],
     [s \in Symbols |-> IF s = "PTT" THEN "Energy" ELSE "Unknown"]}

\* The "check" and "report" commands.
CheckPortfolioRisk(vol, sector) ==
    /\ call = NoCall
    /\ call' = [op |-> "check_portfolio_risk",
                vol |-> vol,
                sector |-> sector,
                result |-> check_portfolio_risk(snapshots, Ledger, market,
                                                today, vol, sector)]
    /\ UNCHANGED <<ledgerVars, conn, snapshots, today, market, plan, journal,
                   cycles>>

\* The ledger, the clock and the PTT quote move between reports; the
\* snapshot command is run once, for the baseline of the daily-loss halt.
NextReport ==
    \/ \E req \in ReportRequests :
          Len(txns) < MaxReportTxns /\ RecordTransaction(req)
    \/ snapshots = {} /\ RecordDailySnapshot
    \/ NextDay
    \/ \E q \in RiskQuotes : RiskPriceTick("PTT", q)
    \/ \E vol \in [Symbols -> Volatilities], sector \in SectorMaps :
          CheckPortfolioRisk(vol, sector)

SpecReport == Init /\ [][NextReport]_vars

-----------------------------------------------------------------------------
(* The action plan fed by the analysis pipeline: _run_full_analysis of     *)
(* agents/action_plan_agent.py in front of generate_action_plan.           *)

\* load_weights(): the composite_scoring weights of the configuration.
PlanWeights ==
    CHOOSE w \in WeightSets :
        DOMAIN w = SignalNames /\ w["technical"] = Frac(30, 100)

\* What the collaborators give for one symbol.  Each either raises, which
\* _run_full_analysis turns into an {"error": ...} result (lines 40-86), or
\* returns the fields read later; raises stands for an exception that
\* leaves the try block of the loop some other way.
TechnicalOutcomes ==
    {[error |-> TRUE]}
    \cup [error : {FALSE}, rsi : {R(0), R(50)}, close : {R(10)}]
SentimentOutcomes == {[error |-> TRUE], [error |-> FALSE, sentiment_score |-> R(1)]}
FundamentalOutcomes == {[error |-> TRUE], [error |-> FALSE, fscore |-> R(9)]}
NewsOutcomes == {[error |-> TRUE], [error |-> FALSE]}
PipelineOutcomes ==
    {[raises |-> TRUE]}
    \cup [raises : {FALSE}, technical : TechnicalOutcomes,
          sentiment : SentimentOutcomes, fundamental : FundamentalOutcomes,
          news : NewsOutcomes]

\* _run_full_analysis, reduced to what generate_action_plan reads from it:
\* scoring.composite_score (line 204) and technical.close, 0 when the
\* technical result has none (line 228).
_run_full_analysis(outcome, weights) ==
    [raises |-> FALSE,
     score |-> compute_composite_score(outcome, weights).composite_score,
     close |-> IF outcome.technical.error THEN Zero
               ELSE outcome.technical.close]

\* Line 203 inside the try block of the loop.
Analyse(outcome) ==
    IF outcome.raises THEN [raises |-> TRUE]
    ELSE _run_full_analysis(outcome, PlanWeights)

\* The action-plan command with the pipeline in front of it; call keeps
\* what the collaborators gave.
GenerateFromPipeline(outcomes) ==
    /\ plan = NoPlan
    /\ plan' = generate_action_plan(snapshots, Ledger, market, today,
                   R(DefaultBudget),
                   [i \in 1..Len(Watchlist) |-> Analyse(outcomes[i])])
    /\ call' = [op |-> "generate_action_plan", outcomes |-> outcomes]
    /\ UNCHANGED <<ledgerVars, conn, snapshots, today, market, journal, cycles>>

\* Calls of record_transaction before a plan is generated: a holding outside
\* the watchlist, and one of a watchlist symbol close to its position limit.
PipelineRequests ==
    {[symbol |-> "KBANK", action |-> "BUY", amount |-> R(40000), price |-> R(10)],
     [symbol |-> "PTT", action |-> "BUY", amount |-> R(12000), price |-> R(10)]}

NextPipeline ==
    \/ \E req \in PipelineRequests :
          Len(txns) < MaxPlanTxns /\ RecordTransaction(req)
    \/ \E outcomes \in [1..Len(Watchlist) -> PipelineOutcomes] :
          GenerateFromPipeline(outcomes)

SpecPipeline == Init /\ [][NextPipeline]_vars

-----------------------------------------------------------------------------
(* Decision cycles: check_position_limits of analysis/risk_manager.py      *)
(* followed by record_transaction of agents/portfolio_agent.py, run by two *)
(* processes against one store.  Each SELECT of _get_portfolio_data reads  *)
(* the state committed when it runs.                                       *)

\* What a cycle asks check_position_limits about.
CycleRequests ==
    [symbol : {"PTT", "AOT"}, amount : {R(10000), R(20000)}]

\* Prices a cycle's BUY is executed at.
CyclePrices == {R(8), R(10)}

\* The quote of a held symbol after the feed has moved.
CycleQuotes == {Frac(161, 20)}

\* The view _get_portfolio_data has returned to a cycle.
View(cyc) == [cash |-> cyc.cash, holdings |-> cyc.holdings, txns |-> <<>>]

\* Line 65: SELECT * FROM portfolio WHERE id = 1, the first read of
\* _get_portfolio_data inside check_position_limits(symbol, amount).
SelectPortfolio(c, ask) ==
    /\ cycles[c].pc = "start"
    /\ cycles' = [cycles EXCEPT ![c] =
                     [pc |-> "read", symbol |-> ask.symbol,
                      amount |-> ask.amount, cash |-> cash]]
    /\ UNCHANGED <<ledgerVars, conn, snapshots, today, market, plan, journal,
                   call>>

\* Line 66: SELECT * FROM holdings WHERE shares > 0, the second read, and the
\* rest of check_position_limits on the two results and the quotes of now.
SelectHoldings(c) ==
    /\ cycles[c].pc = "read"
    /\ LET cyc == cycles[c]
           seen == [cash |-> cyc.cash, holdings |-> holdings, txns |-> <<>>]
       IN  cycles' = [cycles EXCEPT ![c] =
                         [pc |-> "checked", symbol |-> cyc.symbol,
                          amount |-> cyc.amount, cash |-> cyc.cash,
                          holdings |-> holdings, quotes |-> market,
                          result |-> check_position_limits(
                                         seen, market, cyc.symbol, cyc.amount)]]
    /\ UNCHANGED <<ledgerVars, conn, snapshots, today, market, plan, journal,
                   call>>

\* The cycle records the BUY of the allowed_amount its check returned.
\* stale tells whether the store had moved on from what the check had read.
CycleRecord(c, price) ==
    /\ cycles[c].pc = "checked"
    /\ conn.pc = "idle"
    /\ LET cyc == cycles[c]
           req == [symbol |-> cyc.symbol, action |-> "BUY",
                   amount |-> cyc.result.allowed_amount, price |-> price]
       IN  /\ SetLedger(record_transaction(Ledger, req))
           /\ cycles' = [cycles EXCEPT ![c] =
                            [pc |-> "done", symbol |-> cyc.symbol,
                             allowed |-> cyc.result.allowed,
                             amount |-> req.amount,
                             stale |-> (cyc.cash # cash
                                           \/ cyc.holdings # holdings)]]
    /\ conn' = Returned
    /\ plan' = NoPlan
    /\ call' = NoCall
    /\ UNCHANGED <<snapshots, today, market, journal>>

\* The price feed moves the quote of a symbol that has a holding row.
CyclePriceTick(s, q) ==
    /\ holdings[s] # NoRow
    /\ market[s] # q
    /\ market' = [market EXCEPT ![s] = q]
    /\ UNCHANGED <<ledgerVars, conn, snapshots, today, plan, journal, call,
                   cycles>>

NextCycles ==
    \/ \E c \in Cycles, ask \in CycleRequests : SelectPortfolio(c, ask)
    \/ \E c \in Cycles : SelectHoldings(c)
    \/ \E c \in Cycles, price \in CyclePrices : CycleRecord(c, price)
    \/ \E s \in Symbols, q \in CycleQuotes : CyclePriceTick(s, q)

SpecCycles == Init /\ [][NextCycles]_vars

-----------------------------------------------------------------------------
(* Claims about the ledger store.                                          *)

HeldSymbols == {s \in Symbols : holdings[s] # NoRow}

\* C1: record_transaction is atomic.  Whenever the committed ledger (cash,
\* holdings, transactions) changes, it changes by the whole effect of the
\* call in flight: cash update, holding upsert and transaction insert
\* together.  A call that raises at any statement leaves it as it was.
C1_Atomic ==
    [][Ledger' # Ledger =>
          /\ conn.pc # "idle"
          /\ Ledger' = record_transaction(Ledger, conn.req)]_vars

\* C1 witness: a call raised at the transaction insert, after its cash
\* update and holding upsert had run, and an earlier call is committed.
C1_Witness ==
    /\ conn.pc = "idle"
    /\ conn.outcome = "raised"
    /\ conn.at = "insert"
    /\ Len(txns) = 1

\* C2 as claimed: the committed cash balance is never negative.
C2_CashNeverNegative == RGe(cash, Zero)

\* C3 as claimed: every holding row has shares >= 0 and avg_cost >= 0.
C3_HoldingsNeverNegative ==
    \A s \in HeldSymbols :
        RGe(holdings[s].shares, Zero) /\ RGe(holdings[s].avg_cost, Zero)

\* C5 as claimed: every transaction row has amount = shares * price.
C5_AmountIsSharesTimesPrice ==
    \A i \in 1..Len(txns) :
        txns[i].amount = RMul(txns[i].shares, txns[i].price)

\* C6: a committed BUY of amount A at price P > 0 on a symbol without a
\* holding row shows in get_portfolio_status as a holding with shares = A/P
\* and avg_cost = P and a cash balance lower by exactly A; the entries of all
\* other symbols are as before.
C6_FreshBuy ==
    [][(/\ conn.pc = "commit"
        /\ conn'.outcome = "committed"
        /\ conn.req.action = "BUY"
        /\ RGt(conn.req.price, Zero)
        /\ holdings[conn.req.symbol] = NoRow)
       => LET before == get_portfolio_status(Ledger)
              after == get_portfolio_status(Ledger')
              req == conn.req
          IN  /\ after.holdings[req.symbol] # NoRow
              /\ after.holdings[req.symbol].shares = RDiv(req.amount, req.price)
              /\ after.holdings[req.symbol].avg_cost = req.price
              /\ after.cash_balance = RSub(before.cash_balance, req.amount)
              /\ \A o \in Symbols \ {req.symbol} :
                     after.holdings[o] = before.holdings[o]]_vars

\* C6 witness: the second committed call was a BUY at a positive price of a
\* symbol the first call had not touched, and both symbols are listed.
C6_Witness ==
    /\ conn = Returned
    /\ Len(txns) = 2
    /\ txns[1].symbol # txns[2].symbol
    /\ txns[1].action = "BUY" /\ RGt(txns[1].price, Zero)
    /\ txns[2].action = "BUY" /\ RGt(txns[2].price, Zero)
    /\ \A s \in {txns[1].symbol, txns[2].symbol} :
           get_portfolio_status(Ledger).holdings[s] # NoRow

TxnsOf(s) == {i \in 1..Len(txns) : txns[i].symbol = s}

OnlyBuys(s) ==
    /\ TxnsOf(s) # {}
    /\ \A i \in TxnsOf(s) : txns[i].action = "BUY" /\ RGt(txns[i].price, Zero)

\* C7: for a symbol whose committed transactions are all BUYs at prices > 0,
\* the holding's shares are the sum of amount/price over them and its
\* avg_cost is (sum of amounts) / (sum of shares).
C7_WeightedAverageCost ==
    \A s \in Symbols :
        OnlyBuys(s) =>
            LET bought == RSum([i \in TxnsOf(s) |->
                                   RDiv(txns[i].amount, txns[i].price)], TxnsOf(s))
                paid == RSum([i \in TxnsOf(s) |-> txns[i].amount], TxnsOf(s))
            IN  /\ holdings[s] # NoRow
                /\ holdings[s].shares = bought
                /\ holdings[s].avg_cost = RDiv(paid, bought)

\* C7 witness: two BUYs of one symbol at different prices and amounts.
C7_Witness ==
    \E s \in Symbols :
        /\ OnlyBuys(s)
        /\ Cardinality(TxnsOf(s)) >= 2
        /\ txns[1].price # txns[2].price
        /\ txns[1].amount # txns[2].amount
        /\ holdings[s].avg_cost \notin {txns[1].price, txns[2].price}

-----------------------------------------------------------------------------
(* Claims about the store as a whole and the risk manager.                 *)

IsPrefix(a, b) == Len(a) <= Len(b) /\ SubSeq(b, 1, Len(a)) = a

\* C4: the transactions table is append-only.  Every step leaves the rows
\* written so far in place and unchanged and adds at most one row, and a
\* step that changes cash or holdings (a successful record_transaction)
\* adds exactly one.
C4_AppendOnly ==
    [][/\ IsPrefix(txns, txns')
       /\ Len(txns') <= Len(txns) + 1
       /\ (cash' # cash \/ holdings' # holdings) => Len(txns') = Len(txns) + 1
      ]_vars

\* C4 witness: two calls have committed, with a snapshot taken and a day
\* gone by.
C4_Witness ==
    /\ Len(txns) = 2
    /\ txns[1] # txns[2]
    /\ snapshots # {}
    /\ today > 0

OnePerDate ==
    \A r1, r2 \in snapshots : r1.snapshot_date = r2.snapshot_date => r1 = r2

SnapshotIdempotent ==
    LET once == record_daily_snapshot(snapshots, Ledger, market, today)
    IN  record_daily_snapshot(once, Ledger, market, today) = once

PnlAgainstEarlierDate ==
    \A r \in snapshots :
        LET earlier == {e \in snapshots : e.snapshot_date < r.snapshot_date}
        IN  r.daily_pnl =
                IF earlier = {} THEN Zero
                ELSE RSub(r.total_value, LatestOf(earlier).total_value)

RatioOrZero(x, y) == IF y = Zero THEN Zero ELSE RDiv(x, y)

\* C9 as claimed: halt_active is TRUE exactly when a snapshot dated before
\* today exists and (current_total - previous_total) / previous_total <=
\* daily_loss_halt_pct for the latest such snapshot; with no such snapshot
\* the result is inactive with the "no previous snapshot" reason.
C9_HaltIff ==
    LET result == check_daily_loss_halt(snapshots, Ledger, market, today)
        prev == PreviousSnapshots(snapshots, today)
        current_total == TotalValue(Ledger, market)
    IN  /\ result.halt_active =
              (/\ prev # {}
               /\ RLe(RatioOrZero(RSub(current_total, LatestOf(prev).total_value),
                                  LatestOf(prev).total_value),
                      daily_loss_halt_pct))
        /\ prev = {} =>
              /\ result.halt_active = FALSE
              /\ result.reason = "No previous snapshot"

\* C9 restricted to a positive baseline, where it holds: the scenario of the
\* claim (previous 100000, current 94000) is such a state.
C9_HaltIffPositiveBaseline ==
    LET prev == PreviousSnapshots(snapshots, today)
    IN  (prev # {} => RGt(LatestOf(prev).total_value, Zero)) => C9_HaltIff

C9_Scenario ==
    LET result == check_daily_loss_halt(snapshots, Ledger, market, today)
    IN  /\ PreviousSnapshots(snapshots, today) # {}
        /\ result.previous_value = R(100000)
        /\ result.current_value = R(94000)
        /\ result.halt_active

-----------------------------------------------------------------------------
(* Claims about the action plan.                                           *)

PlanMade == plan # NoPlan

Recs == IF PlanMade THEN {plan.actions[i] : i \in 1..Len(plan.actions)} ELSE {}

\* C10: in a plan generated while the daily-loss halt is active no
\* recommendation is a BUY: every symbol scored above 30 is a HOLD of amount
\* 0 that carries the halt warning, and neither calculate_position_size nor
\* check_position_limits was called for it.
C10_HaltBlocksBuys ==
    (PlanMade /\ plan.halt_active) =>
        \A r \in Recs :
            /\ r.action # "BUY"
            /\ (r.action # "SKIP" /\ RGt(r.composite_score, R(BuyAbove))) =>
                  /\ r.action = "HOLD"
                  /\ r.amount_thb = Zero
                  /\ r.risk = <<"Daily loss halt active">>
                  /\ r.calls = <<>>

\* C10 witness: a plan made under an active halt in which a symbol scored
\* above 30.
C10_Witness ==
    /\ PlanMade
    /\ plan.halt_active
    /\ \E r \in Recs : r.action # "SKIP" /\ RGt(r.composite_score, R(BuyAbove))

-----------------------------------------------------------------------------
(* Claims about position sizing and the composite scorer.                  *)

Sized == call.op = "calculate_position_size"

\* amount = price * (a multiple of 100 shares)
IsLotMultiple(amount, price) ==
    RDiv(amount, RMul(price, R(BoardLot))).d = 1

Scored ==
    call.op \in {"compute_composite_score", "scoring.compute_composite_score"}

\* C12: the composite score either scorer returns lies in [-100, 100], for
\* all per-signal scores and weights, weights that do not sum to 1 and
\* scores outside [-100, 100] included.
C12_CompositeClamped ==
    Scored =>
        /\ RGe(call.result.composite_score, R(-100))
        /\ RLe(call.result.composite_score, R(100))

\* C12 witness: the orchestrator's scorer returned -100 for a weighted sum
\* below -100, from a fundamental score outside [-100, 100].
C12_Witness ==
    /\ call.op = "compute_composite_score"
    /\ RLt(call.scores["fundamental"], R(-100))
    /\ RLt(WeightedSum(call.scores, call.weights), R(-100))
    /\ call.result.composite_score = R(-100)

-----------------------------------------------------------------------------
(* Claims about the risk manager's reports.                                *)

Listed(s) == holdings[s] # NoRow /\ RGt(holdings[s].shares, Zero)

\* The value of a holding as the checks see it: shares times the quote, or
\* times avg_cost when there is no quote.
ValueOf(s) ==
    IF Listed(s)
    THEN RMul(holdings[s].shares,
              IF market[s] # Zero THEN market[s] ELSE holdings[s].avg_cost)
    ELSE Zero

\* A share of the portfolio's total value; of a portfolio with no positive
\* value it is 0.
ShareOf(x, total) == IF RGt(total, Zero) THEN RDiv(x, total) ELSE Zero

HasWarning(result, kind) ==
    \E i \in 1..Len(result.warnings) : result.warnings[i] = kind

\* What C13 says of a step that returns a check_position_limits report;
\* allowed_amount is compared with the minimum, rounded to two decimals
\* when rounded is TRUE.
LimitsStep(rounded) ==
    call'.op = "check_position_limits" =>
        LET r == call'.result
            amount == call'.amount
            total_market == RSum([s \in Symbols |-> ValueOf(s)], Symbols)
            total_value == RAdd(cash, total_market)
            existing_value == ValueOf(call'.symbol)
            room == RSub(RMul(total_value, max_position_pct), existing_value)
            spare == RSub(RMul(total_value, total_deployment_cap), total_market)
            least == RMin(RMin(RMax(Zero, room), RMax(Zero, spare)), amount)
        IN  /\ r.allowed_amount =
                   IF rounded THEN Round(least, 2) ELSE least
            /\ RGe(r.allowed_amount, Zero)
            /\ RLe(r.allowed_amount, amount)
            /\ HasWarning(r, "Position limit") =
                   RGt(ShareOf(RAdd(existing_value, amount), total_value),
                       max_position_pct)
            /\ HasWarning(r, "Deployment cap") =
                   RGt(ShareOf(RAdd(total_market, amount), total_value),
                       total_deployment_cap)
            /\ r.allowed = (r.warnings = <<>>)
            /\ Ledger' = Ledger
            /\ snapshots' = snapshots

C20_StopLossIff ==
    [][call'.op = "check_stop_losses" =>
          /\ Ledger' = Ledger
          /\ DOMAIN call'.result = {s \in Symbols : Listed(s)}
          /\ \A s \in DOMAIN call'.result :
                 LET avg_cost == holdings[s].avg_cost
                     current_price ==
                         IF RGt(market[s], Zero) THEN market[s] ELSE avg_cost
                 IN  call'.result[s].triggered =
                         RLe(RatioOrZero(RSub(current_price, avg_cost),
                                         avg_cost), stop_loss_pct)]_vars

\* C20 where every listed holding has a positive avg_cost, which is where
\* the report agrees with the claim.
C20_StopLossIffPositiveCost ==
    [][(\A s \in Symbols : Listed(s) => RGt(holdings[s].avg_cost, Zero))
          => (call'.op = "check_stop_losses" =>
               /\ Ledger' = Ledger
               /\ DOMAIN call'.result = {s \in Symbols : Listed(s)}
               /\ \A s \in DOMAIN call'.result :
                      LET avg_cost == holdings[s].avg_cost
                          current_price ==
                              IF RGt(market[s], Zero) THEN market[s]
                              ELSE avg_cost
                      IN  call'.result[s].triggered =
                              RLe(RatioOrZero(RSub(current_price, avg_cost),
                                              avg_cost), stop_loss_pct))]_vars

\* A report with one holding triggered at exactly the threshold.
C20_Scenario ==
    /\ call.op = "check_stop_losses"
    /\ \E s \in DOMAIN call.result :
           /\ call.result[s].triggered
           /\ call.result[s].pnl_pct = stop_loss_pct

-----------------------------------------------------------------------------
(* Claims about the clamping of proposed BUYs.                             *)

\* The recommendations of the plan for which check_position_limits was
\* called.
Checked == {r \in Recs : r.action # "SKIP" /\ r.limit # NoRow}

\* C14 as claimed: for every symbol the plan emits as BUY, the amount is no
\* greater than the allowed_amount check_position_limits returned for it in
\* that run; a positive allowed_amount below the proposal is the amount of
\* the BUY, and with allowed_amount = 0 the action is HOLD with amount 0; in
\* every ledger state, total value 0 included.
C14_BuysClamped ==
    \A r \in Checked :
        /\ r.limit = check_position_limits(Ledger, market, r.symbol,
                                           r.limit.requested_amount)
        /\ r.action = "BUY" => RLe(r.amount_thb, r.limit.allowed_amount)
        /\ (/\ RGt(r.limit.allowed_amount, Zero)
            /\ RLt(r.limit.allowed_amount, r.limit.requested_amount))
           => r.action = "BUY" /\ r.amount_thb = r.limit.allowed_amount
        /\ r.limit.allowed_amount = Zero
           => r.action = "HOLD" /\ r.amount_thb = Zero

\* C14 in the ledger states with a positive total value, where the plan
\* clamps as claimed.
C14_BuysClampedPositiveValue ==
    RGt(TotalValue(Ledger, market), Zero) => C14_BuysClamped

\* A plan with a BUY shrunk to a positive allowed_amount.
C14_Scenario ==
    \E r \in Checked :
        /\ r.action = "BUY"
        /\ RGt(r.limit.allowed_amount, Zero)
        /\ RLt(r.limit.allowed_amount, r.limit.requested_amount)

-----------------------------------------------------------------------------
(* Claims about the trade journal.                                         *)

Closing == call'.op = "close_trade"

\* The call returned the dict of a closed trade (not an error, no raise).
Closed(result) == "pnl" \in DOMAIN result

\* The OPEN rows a close_trade key stands for: those with the trade id when
\* one is given, else those of the symbol.
OpenFor(key) ==
    {i \in 1..Len(journal) :
        /\ journal[i].status = "OPEN"
        /\ IF key.trade_id # 0 THEN journal[i].id = key.trade_id
           ELSE journal[i].symbol = key.symbol}

\* C15: a close_trade called with a trade id or a symbol for which no row
\* has status OPEN returns the error "No open trade found" and leaves every
\* journal row and the ledger (cash, holdings, transactions, snapshots) as
\* they were.
C15_NoOpenTrade ==
    [][(/\ Closing
        /\ call'.key.trade_id # 0 \/ call'.key.symbol # NoSymbol
        /\ OpenFor(call'.key) = {})
       => /\ call'.result = [error |-> "No open trade found"]
          /\ journal' = journal
          /\ Ledger' = Ledger
          /\ snapshots' = snapshots]_vars

\* C15 witness: close_trade by symbol reported no open trade while the
\* journal holds two rows of that symbol, both closed before.
C15_Witness ==
    /\ call.op = "close_trade"
    /\ call.key.trade_id = 0
    /\ call.result = [error |-> "No open trade found"]
    /\ Len(journal) = 2
    /\ \A i \in 1..Len(journal) :
           journal[i].symbol = call.key.symbol /\ journal[i].status # "OPEN"

\* What C16 says of a step in which close_trade by symbol closes a trade;
\* pnl and pnl_pct are compared with the claim's values, rounded to 2 and 4
\* decimals when rounded is TRUE.
CloseBySymbolStep(rounded) ==
    (/\ Closing
     /\ call'.key.trade_id = 0
     /\ Closed(call'.result))
    => \E i \in OpenFor(call'.key) :
          LET row == journal[i]
              worth == RMul(row.entry_price, row.shares)
              pnl == IF row.action = "BUY"
                     THEN RMul(RSub(call'.result.exit_price, row.entry_price),
                               row.shares)
                     ELSE RMul(RSub(row.entry_price, call'.result.exit_price),
                               row.shares)
              pnl_pct == IF RLe(worth, Zero) THEN Zero ELSE RDiv(pnl, worth)
          IN  /\ \A o \in OpenFor(call'.key) : o <= i
              /\ call'.result.id = row.id
              /\ Len(journal') = Len(journal)
              /\ \A o \in 1..Len(journal) : o # i => journal'[o] = journal[o]
              /\ journal'[i].pnl = IF rounded THEN Round(pnl, 2) ELSE pnl
              /\ journal'[i].pnl_pct =
                     IF rounded THEN Round(pnl_pct, 4) ELSE pnl_pct
              /\ journal'[i].exit_price = call'.result.exit_price
              /\ journal'[i].status = call'.result.status

\* C16 as claimed: close_trade by symbol acts on exactly one row, the most
\* recently created OPEN row of the symbol, and sets pnl = (exit - entry) *
\* shares for a BUY row and (entry - exit) * shares for a SELL row, with
\* pnl_pct = pnl / (entry * shares), 0 when entry * shares <= 0; every other
\* row, older OPEN rows of the symbol included, is unchanged.
C16_CloseBySymbolExact == [][CloseBySymbolStep(FALSE)]_vars

\* C16 as amended: the same, with pnl stored rounded to 2 decimals and
\* pnl_pct rounded to 4 decimals.
C16_CloseBySymbol == [][CloseBySymbolStep(TRUE)]_vars

\* C16 witness: close_trade by symbol closed the newer of two OPEN rows of
\* one symbol at a pnl_pct that rounding changed; the older row is as
\* open_trade left it.
C16_Witness ==
    /\ call.op = "close_trade"
    /\ call.key.trade_id = 0
    /\ Closed(call.result)
    /\ Len(journal) = 2
    /\ journal[1].symbol = journal[2].symbol
    /\ journal[1].status = "OPEN"
    /\ journal[1].exit_price = None
    /\ journal[2].status = "CLOSED"
    /\ journal[2].pnl_pct = Frac(333, 10000)

\* A row that a close_trade call has updated: the call set its exit_price.
Updated(row) == row.exit_price # None

\* C17 as claimed: a journal row is mutated at most once.  A row that a
\* close_trade call has updated is CLOSED or STOPPED_OUT, whatever status
\* argument the call was given, and no later call changes its exit_price,
\* pnl, pnl_pct or status; no row is ever deleted.
C17_MutatedOnce ==
    [][/\ Len(journal') >= Len(journal)
       /\ \A i \in 1..Len(journal) :
              Updated(journal[i]) =>
                  /\ journal[i].status \in {"CLOSED", "STOPPED_OUT"}
                  /\ journal'[i].exit_price = journal[i].exit_price
                  /\ journal'[i].pnl = journal[i].pnl
                  /\ journal'[i].pnl_pct = journal[i].pnl_pct
                  /\ journal'[i].status = journal[i].status]_vars

\* What holds in place of C17: a row that is not OPEN is never changed, and
\* no row is deleted.
C17_ClosedRowsFrozen ==
    [][/\ Len(journal') >= Len(journal)
       /\ \A i \in 1..Len(journal) :
              journal[i].status # "OPEN" => journal'[i] = journal[i]]_vars

\* C18 as claimed: at most one journal row with status OPEN exists per
\* symbol.
C18_OneOpenPerSymbol ==
    \A s \in Symbols :
        Cardinality({i \in 1..Len(journal) :
                        journal[i].symbol = s /\ journal[i].status = "OPEN"}) <= 1

\* The requests open_trade accepts.
ValidOpens == {a \in OpenRequests : a.action \in Actions}

\* C19: the journal and the ledger are decoupled.  A step of open_trade or
\* close_trade leaves cash, holdings, transactions and snapshots unchanged; a
\* step that changes the ledger or the snapshots (record_transaction, the
\* snapshot command) leaves every journal row unchanged; and open_trade
\* with arguments the table accepts can be called, and inserts its OPEN row,
\* in every state of the ledger.
C19_Decoupled ==
    /\ [][/\ (journal' # journal \/ call'.op \in {"open_trade", "close_trade"})
             => (Ledger' = Ledger /\ snapshots' = snapshots)
          /\ (Ledger' # Ledger \/ snapshots' # snapshots)
             => journal' = journal
          /\ (call'.op = "open_trade" /\ call'.args \in ValidOpens)
             => /\ call'.result.status = "OPEN"
                /\ Len(journal') = Len(journal) + 1
                /\ journal'[Len(journal')].status = "OPEN"]_vars
    /\ [](Len(journal) < MaxJournal =>
              \A a \in BookOpenRequests : ENABLED OpenTrade(a))

\* C19 witness: an entry was opened and another closed after the ledger had
\* booked a BUY that left the cash negative, with a snapshot taken.
C19_Witness ==
    /\ RLt(cash, Zero)
    /\ Len(txns) = 1
    /\ snapshots # {}
    /\ Len(journal) = 2
    /\ journal[1].status = "CLOSED"
    /\ journal[2].status = "OPEN"
    /\ call.op = "open_trade"

-----------------------------------------------------------------------------
(* Claims about the combined risk report.                                  *)

Reported == call.op = "check_portfolio_risk"

\* The checks of a report that fired: a triggered stop-loss, an active
\* daily-loss halt, a sector above max_sector_pct, heat classified HIGH.
Fired(result) ==
    {Warning("stop_loss", s) : s \in {t \in DOMAIN result.stop_losses :
                                         result.stop_losses[t].triggered}}
    \cup {Warning("daily_halt", "") : x \in {y \in {1} :
                                         result.daily_halt.halt_active}}
    \cup {Warning("sector", x) : x \in result.sector_concentration.warnings}
    \cup {Warning("heat", "") : x \in {y \in {1} : result.heat.level = "HIGH"}}

\* C21: check_portfolio_risk returns risk_level HIGH if and only if at least
\* one of its checks fired (a triggered stop-loss, an active daily-loss halt,
\* a sector above max_sector_pct, heat classified HIGH) and OK otherwise; its
\* warnings hold the message of every check that fired; the four reports it
\* carries are those of the checks called on the same ledger, prices and
\* snapshots.
C21_RiskLevelIff ==
    Reported =>
        /\ call.result.risk_level \in {"HIGH", "OK"}
        /\ call.result.risk_level = "HIGH" <=> Fired(call.result) # {}
        /\ Fired(call.result) \subseteq call.result.warnings
        /\ call.result.stop_losses = check_stop_losses(Ledger, market)
        /\ call.result.daily_halt =
               check_daily_loss_halt(snapshots, Ledger, market, today)
        /\ call.result.heat = compute_portfolio_heat(Ledger, market, call.vol)
        /\ call.result.sector_concentration =
               check_sector_concentration(Ledger, market, call.sector)

\* C21 witnesses: a report that is HIGH on the heat alone, and one that is
\* OK with a holding in the portfolio.
C21_Witness ==
    /\ Reported
    /\ call.result.risk_level = "HIGH"
    /\ Fired(call.result) = {Warning("heat", "")}

C21_WitnessOK ==
    /\ Reported
    /\ call.result.risk_level = "OK"
    /\ DOMAIN call.result.stop_losses # {}

-----------------------------------------------------------------------------
(* Claims about the Kelly fraction and the per-signal scores.              *)

Kelly == call.op = "kelly_criterion"

\* C23 as claimed: kelly_criterion never raises and returns a fraction in
\* [0, 0.5] for every input; it returns 0 whenever avg_loss <= 0 or
\* win_rate <= 0, and 0 as well where its formula divides by zero (avg_win
\* = 0 with avg_loss > 0 and win_rate > 0).
C23_KellyNeverRaises ==
    Kelly =>
        /\ "value" \in DOMAIN call.result
        /\ RLe(Zero, call.result.value)
        /\ RLe(call.result.value, Frac(1, 2))
        /\ (RLe(call.avg_loss, Zero) \/ RLe(call.win_rate, Zero))
               => call.result.value = Zero
        /\ call.avg_win = Zero => call.result.value = Zero

\* What holds in place of C23: a call that returns gives a fraction in
\* [0, 0.5], and 0 whenever avg_loss <= 0 or win_rate <= 0; a call raises
\* exactly when avg_win = 0 with avg_loss > 0 and win_rate > 0.
C23_KellyWhenReturned ==
    Kelly =>
        /\ "raised" \in DOMAIN call.result
               <=> /\ call.avg_win = Zero
                   /\ RGt(call.avg_loss, Zero)
                   /\ RGt(call.win_rate, Zero)
        /\ "value" \in DOMAIN call.result
               => /\ RLe(Zero, call.result.value)
                  /\ RLe(call.result.value, Frac(1, 2))
                  /\ (RLe(call.avg_loss, Zero) \/ RLe(call.win_rate, Zero))
                         => call.result.value = Zero

\* A half-Kelly strictly inside the range was returned.
C23_Scenario ==
    /\ Kelly
    /\ "value" \in DOMAIN call.result
    /\ RGt(call.result.value, Zero)
    /\ RLt(call.result.value, Frac(1, 2))

\* The collaborator results the signal contract allows: an error, or an RSI
\* in [0, 100] (or none), a sentiment_score in [-1, 1], an F-Score in [0, 9].
InContract(results) ==
    /\ \/ results.technical.error
       \/ results.technical.rsi = None
       \/ (RLe(Zero, results.technical.rsi)
             /\ RLe(results.technical.rsi, R(100)))
    /\ \/ results.sentiment.error
       \/ (RLe(R(-1), results.sentiment.sentiment_score)
             /\ RLe(results.sentiment.sentiment_score, R(1)))
    /\ \/ results.fundamental.error
       \/ (RLe(Zero, results.fundamental.fscore)
             /\ RLe(results.fundamental.fscore, R(9)))

\* The signals whose collaborator errored, and those no collaborator feeds.
Errored(results) ==
    {k \in {"technical", "sentiment", "fundamental"} : results[k].error}
    \cup {"volume", "news", "fund_flow"}

\* What C24 says of the scores in the set named: each lies in [-100, 100]
\* for results inside the contract, and an errored or missing signal
\* scores exactly 0.
ScoresInRange(names) ==
    (call.op = "compute_composite_score" /\ InContract(call.results)) =>
        \A k \in names :
            /\ RLe(R(-100), call.scores[k])
            /\ RLe(call.scores[k], R(100))
            /\ k \in Errored(call.results) => call.scores[k] = Zero

\* C24 as claimed: every per-signal score that enters the weighted sum
\* (technical, sentiment, fundamental, volume, news, fund_flow) lies in
\* [-100, 100] for every collaborator output the contract allows, and an
\* errored or missing signal contributes exactly 0.
C24_SignalScoresInRange == ScoresInRange(SignalNames)

\* What holds in place of C24: the same for every signal but fundamental.
C24_OtherScoresInRange == ScoresInRange(SignalNames \ {"fundamental"})

\* All three collaborators errored and every score is 0.
C24_Scenario ==
    /\ call.op = "compute_composite_score"
    /\ Errored(call.results) = SignalNames
    /\ \A k \in SignalNames : call.scores[k] = Zero

-----------------------------------------------------------------------------
(* Claims about the action plan fed by the pipeline.                       *)

Piped == call.op = "generate_action_plan"

\* All four signal collaborators of a symbol returned an error.
AllErrored(outcome) ==
    /\ ~outcome.raises
    /\ outcome.technical.error
    /\ outcome.sentiment.error
    /\ outcome.fundamental.error
    /\ outcome.news.error

\* The run is never stopped: one recommendation per watchlist symbol, in
\* watchlist order, and summary counts that sum to the number of symbols.
RunComplete ==
    /\ Len(plan.actions) = Len(Watchlist)
    /\ \A i \in 1..Len(Watchlist) : plan.actions[i].symbol = Watchlist[i]
    /\ plan.summary.buy_count + plan.summary.sell_count
           + plan.summary.hold_count + plan.summary.skip_count
       = Len(Watchlist)

Skipped(rec) == rec.action = "SKIP" /\ "error" \in DOMAIN rec

\* C22 as claimed: a symbol whose pipeline fails, the case where all four
\* signal collaborators return an error included, is emitted with action
\* SKIP and the error recorded, and the failure never stops the run: the
\* plan holds exactly one recommendation per watchlist symbol, in watchlist
\* order, and the summary's buy, sell, hold and skip counts sum to the
\* number of symbols.
C22_FailuresSkipped ==
    Piped =>
        /\ RunComplete
        /\ \A i \in 1..Len(Watchlist) :
               (call.outcomes[i].raises \/ AllErrored(call.outcomes[i]))
                   => Skipped(plan.actions[i])

\* What holds in place of C22: the run is complete, a symbol is skipped
\* exactly when an exception left the try block of its iteration, and a
\* symbol whose four collaborators all errored is a HOLD of score 0 and
\* amount 0 with no error recorded.
C22_RunComplete ==
    Piped =>
        /\ RunComplete
        /\ \A i \in 1..Len(Watchlist) :
               /\ call.outcomes[i].raises <=> Skipped(plan.actions[i])
               /\ AllErrored(call.outcomes[i]) =>
                      /\ plan.actions[i].action = "HOLD"
                      /\ plan.actions[i].composite_score = Zero
                      /\ plan.actions[i].amount_thb = Zero
                      /\ "error" \notin DOMAIN plan.actions[i]

\* A run in which the first symbol is skipped and the second is a BUY.
C22_Scenario ==
    /\ Piped
    /\ Skipped(plan.actions[1])
    /\ plan.actions[2].action = "BUY"
    /\ plan.summary.skip_count = 1
    /\ plan.summary.buy_count = 1

\* The BUY recommendations of the plan.
Buys == {r \in Recs : r.action = "BUY"}

\* C27 as claimed: every recommendation emitted as BUY carries a tradable
\* amount, at least min_position_thb and never 0; a symbol for which
\* position sizing returns 0, or whose amount the position-limit check
\* shrinks below the minimum, is not emitted as BUY.
C27_BuysTradable ==
    \A r \in Buys : RGe(r.amount_thb, R(min_position_thb))

\* What holds in place of C27: a BUY below the minimum is one whose sizing
\* returned 0 (amount 0, no limit check made) or whose amount is the
\* allowed_amount of a limit check that did not allow the sized amount.
C27_SmallBuys ==
    \A r \in Buys :
        RLt(r.amount_thb, R(min_position_thb)) =>
            \/ r.amount_thb = Zero /\ r.limit = NoRow
            \/ /\ r.limit # NoRow
               /\ ~r.limit.allowed
               /\ r.amount_thb = r.limit.allowed_amount

\* A plan with a BUY of amount 0 next to a BUY shrunk below the minimum.
C27_Scenario ==
    /\ \E r \in Buys : r.amount_thb = Zero
    /\ \E r \in Buys : RGt(r.amount_thb, Zero)
                          /\ RLt(r.amount_thb, R(min_position_thb))

\* C28 as claimed: within one plan the BUY recommendations jointly respect
\* the deployment cap: the sum of their amounts plus the market value
\* already deployed is at most total_deployment_cap times the total
\* portfolio value.
C28_JointDeploymentCap ==
    PlanMade =>
        RLe(RAdd(plan.summary.total_buy_amount, TotalMarket(Ledger, market)),
            RMul(total_deployment_cap, TotalValue(Ledger, market)))

\* What holds in place of C28: with a positive total value each BUY alone,
\* added to the value deployed, stays within the cap (to the half satang
\* allowed_amount is rounded by).
C28_EachBuyWithinCap ==
    (PlanMade /\ RGt(TotalValue(Ledger, market), Zero)) =>
        \A r \in Buys :
            RLe(RAdd(r.amount_thb, TotalMarket(Ledger, market)),
                RAdd(RMul(total_deployment_cap, TotalValue(Ledger, market)),
                     Frac(1, 200)))

\* Two BUYs, each within the cap, in a portfolio with a positive value.
C28_Scenario ==
    /\ PlanMade
    /\ RGt(TotalValue(Ledger, market), Zero)
    /\ Cardinality(Buys) = 2
    /\ \A r \in Buys : RGt(r.amount_thb, Zero)


-----------------------------------------------------------------------------
(* Claims about the decision cycles.                                       *)

\* The value the risk manager gives the holding of a symbol: shares times
\* the quote, or times avg_cost when there is no quote.
PositionValue(L, m, s) ==
    IF L.holdings[s] # NoRow /\ RGt(L.holdings[s].shares, Zero)
    THEN RMul(L.holdings[s].shares,
              IF m[s] # Zero THEN m[s] ELSE L.holdings[s].avg_cost)
    ELSE Zero

\* The symbol's value is within max_position_pct of the total value and the
\* total market value within total_deployment_cap of it, to a tolerance.
WithinLimits(L, m, s, tolerance) ==
    /\ RLe(PositionValue(L, m, s),
           RAdd(RMul(max_position_pct, TotalValue(L, m)), tolerance))
    /\ RLe(TotalMarket(L, m),
           RAdd(RMul(total_deployment_cap, TotalValue(L, m)), tolerance))

\* Cycle c records in this step what its check allowed, the store and the
\* quotes being what the check had read, and both limits held at the check.
SingleWriterRecord(c) ==
    /\ cycles[c].pc = "checked"
    /\ cycles'[c].pc = "done"
    /\ cycles[c].cash = cash
    /\ cycles[c].holdings = holdings
    /\ cycles[c].quotes = market
    /\ WithinLimits(Ledger, market, cycles[c].symbol, Zero)

\* The BUY of this step is executed at a price not below the quote the check
\* valued the symbol at, if it has one.
NotBelowQuote(c) ==
    \/ market[cycles[c].symbol] = Zero
    \/ RGe(txns'[Len(txns')].price, market[cycles[c].symbol])

AllAllowed ==
    \A c \in Cycles :
        /\ cycles[c].pc = "done"
        /\ cycles[c].allowed
        /\ RGt(cycles[c].amount, Zero)

\* Some symbol's position is above max_position_pct of the total value, or
\* the deployment above total_deployment_cap of it.
LimitExceeded == \E s \in Symbols : ~WithinLimits(Ledger, market, s, Zero)

\* C25: check-then-record is open to a time-of-check/time-of-use race.  When
\* two cycles interleave check_position_limits and record_transaction on one
\* ledger, a state is reached where a limit is exceeded although each cycle's
\* check returned allowed = True for the amount it recorded (C25_Witness);
\* and with every holding valued at its cost such a state is reached in no
\* other way: some cycle recorded on a store that had been written to since
\* its check had read it.
C25_ExceededOnlyByRace ==
    (AllAllowed /\ LimitExceeded /\ market = NoMarket)
        => \E c \in Cycles : cycles[c].stale

\* C25 witness: both cycles were allowed the amount they recorded for the
\* same symbol, one of them on a stale check, and the symbol's position is
\* above max_position_pct of the total value.
C25_Witness ==
    /\ AllAllowed
    /\ market = NoMarket
    /\ \E c \in Cycles : cycles[c].stale
    /\ \E s \in Symbols :
          /\ \A c \in Cycles : cycles[c].symbol = s
          /\ RGt(PositionValue(Ledger, market, s),
                 RMul(max_position_pct, TotalValue(Ledger, market)))

\* The ledger init_db creates, and the ledger committed by the first k calls
\* of record_transaction, replayed from the transactions table.
InitialLedger ==
    [cash |-> R(InitialCash), holdings |-> [s \in Symbols |-> NoRow],
     txns |-> <<>>]

RECURSIVE CommittedAfter(_)
CommittedAfter(k) ==
    IF k = 0 THEN InitialLedger
    ELSE record_transaction(CommittedAfter(k - 1),
                            [symbol |-> txns[k].symbol,
                             action |-> txns[k].action,
                             amount |-> txns[k].amount,
                             price |-> txns[k].price])

\* C26 as claimed: the portfolio view a check combines into total_value is
\* atomic with respect to ledger writes: its cash balance and its holdings
\* are those of one committed ledger state, never the cash from before a
\* record_transaction commit with the holdings from after it.
C26_AtomicView ==
    \A c \in Cycles :
        cycles[c].pc = "checked" =>
            \E k \in 0..Len(txns) :
                /\ View(cycles[c]).cash = CommittedAfter(k).cash
                /\ View(cycles[c]).holdings = CommittedAfter(k).holdings

\* A check whose view has the cash from before a BUY and the holding from
\* after it: it counts the amount of the BUY twice in total_value.
C26_Scenario ==
    \E c \in Cycles :
        /\ cycles[c].pc = "checked"
        /\ Len(txns) = 1
        /\ View(cycles[c]).cash = R(InitialCash)
        /\ View(cycles[c]).holdings = holdings
        /\ TotalValue(View(cycles[c]), cycles[c].quotes)
               = RAdd(R(InitialCash), txns[1].amount)

-----------------------------------------------------------------------------
(* Claims about the conservation of value.                                 *)

\* A step that commits one record_transaction call of the given action.
Recorded(action) ==
    /\ Len(txns') = Len(txns) + 1
    /\ txns'[Len(txns')].action = action

\* The total_portfolio_value get_portfolio_status reports is the same before
\* and after the step.
ValueConserved ==
    get_portfolio_status(Ledger').total_portfolio_value
        = get_portfolio_status(Ledger).total_portfolio_value

\* A SELL leaves the avg_cost of the symbol's holding row as it was.
SellKeepsAvgCost ==
    Recorded("SELL") =>
        LET s == txns'[Len(txns')].symbol
        IN  IF holdings[s] = NoRow
            THEN holdings'[s] = NoRow
            ELSE holdings'[s] # NoRow
                 /\ holdings'[s].avg_cost = holdings[s].avg_cost

\* C30 as claimed: in every ledger state a record_transaction BUY with
\* price > 0 leaves the total_portfolio_value of get_portfolio_status
\* unchanged, and a SELL leaves the holding's avg_cost unchanged.
C30_BuyConservesValue ==
    [][/\ (Recorded("BUY") /\ RGt(txns'[Len(txns')].price, Zero))
             => ValueConserved
       /\ SellKeepsAvgCost]_vars

\* What holds in place of C30: the BUY conserves the reported value when the
\* symbol has no holding row or a row with shares >= 0, and a SELL never
\* changes an avg_cost.
C30_BuyConservesFromSoundRow ==
    [][/\ (/\ Recorded("BUY")
           /\ RGt(txns'[Len(txns')].price, Zero)
           /\ LET row == holdings[txns'[Len(txns')].symbol]
              IN  row = NoRow \/ RGe(row.shares, Zero))
             => ValueConserved
       /\ SellKeepsAvgCost]_vars

\* A BUY at a positive price was added to a holding with shares > 0 bought at
\* another price.
C30_Scenario ==
    /\ Len(txns) = 2
    /\ \A i \in 1..2 : /\ txns[i].symbol = "PTT"
                       /\ txns[i].action = "BUY"
                       /\ RGt(txns[i].price, Zero)
    /\ txns[2].price # txns[1].price
    /\ holdings["PTT"].shares = RAdd(txns[1].shares, txns[2].shares)

=============================================================================
